---- MODULE Spec2Model ----
(***************************************************************************)
(* Wave function collapse engine: StateBuilder::build, State::collapse,    *)
(* State::propagate, State::constrain, the entropy cache, the socket       *)
(* cache, the random observer and the Limit modifier.                      *)
(*                                                                         *)
(* Cell indices, direction ids and axis numbers are 0-based as in the      *)
(* source; a position is a tuple whose component k+1 is axis k.            *)
(***************************************************************************)
EXTENDS Integers, Sequences, FiniteSets, TLC

\* ------------------------------------------------------------- bounds
\* largest extent of a one-dimensional grid explored
MaxLen == 3
\* largest quota of a Limit entry explored
MaxLimit == 2
\* largest direction enumeration explored (D::COUNT)
MaxDirs == 5
\* largest number of pre-seeded cells explored
MaxSeeds == 2
\* number of values a draw of the generator ranges over
MaxDraw == 3
\* largest side of the square grid of the limit-exhaustion scenario
MaxSide == 2
\* largest number of modifiers chained onto an observer
MaxChain == 3
\* largest extent of an axis of the grids the index functions are called on
MaxExtent == 3
\* the signed coordinates of the positions handed to the utility functions
\* run from -MaxCoord to MaxCoord
MaxCoord == 6
\* the sockets handed to the constrainers are sets over 1..MaxSocket
MaxSocket == 2

\* ------------------------------------------------------------- inputs
\* variants (tile kinds) the inputs are drawn from
Variants == {1, 2}

\* ------------------------------------------------------------- helpers
Range(s) == {s[k] : k \in 1..Len(s)}

RECURSIVE SeqSum(_)
SeqSum(s) == IF s = <<>> THEN 0 ELSE Head(s) + SeqSum(Tail(s))

\* all orderings of a finite set (the iteration orders a HashMap may have)
RECURSIVE Perms(_)
Perms(S) ==
  IF S = {} THEN {<<>>}
  ELSE UNION {{<<x>> \o p : p \in Perms(S \ {x})} : x \in S}

\* ascending sequence of a finite set of integers
RECURSIVE Sorted(_)
Sorted(S) ==
  IF S = {} THEN <<>>
  ELSE LET m == CHOOSE x \in S : \A y \in S : x <= y
       IN <<m>> \o Sorted(S \ {m})

\* ------------------------------------------------------------- geometry
\* Size::len
SizeLen(sz) == LET RECURSIVE P(_)
                   P(k) == IF k = 0 THEN 1 ELSE sz[k] * P(k - 1)
               IN P(Len(sz))

\* (0..i).map(|i| size[i]).product(): product of the extents of axes 0..i-1
ProductOfParts(sz, i) == LET RECURSIVE P(_)
                             P(k) == IF k = 0 THEN 1 ELSE sz[k] * P(k - 1)
                         IN P(i)

\* util::to_index: sum of pos[i] * product of size[j], j < i
to_index(pos, sz) ==
  SeqSum([k \in 1..Len(pos) |-> pos[k] * ProductOfParts(sz, k - 1)])

\* a from_index that peels the axes off from axis 0 upward
from_index_forward(index, sz) ==
  LET RECURSIVE Peel(_, _, _)
      Peel(rest, k, acc) ==
        IF k > Len(sz) THEN acc
        ELSE LET p == ProductOfParts(sz, k - 1)
                 entry == rest \div p
             IN Peel(rest - entry * p, k + 1, [acc EXCEPT ![k] = entry])
  IN Peel(index, 1, [k \in 1..Len(sz) |-> 0])

\* util::from_index: axes are peeled off from the last one down to axis 0
from_index(index, sz) ==
  LET RECURSIVE Peel(_, _, _)
      Peel(rest, k, acc) ==
        IF k = 0 THEN acc
        ELSE LET p == ProductOfParts(sz, k - 1)
                 entry == rest \div p
             IN Peel(rest - entry * p, k - 1, [acc EXCEPT ![k] = entry])
  IN Peel(index, Len(sz), [k \in 1..Len(sz) |-> 0])

\* Size::contains
Contains(sz, pos) == \A k \in 1..Len(pos) : pos[k] >= 0 /\ pos[k] < sz[k]

\* the remainder of Rust's % on signed integers (truncated division)
RustRem(i, s) == IF i >= 0 THEN i % s ELSE -((-i) % s)

\* a wrap that adds the extent once and takes one remainder
wrap_once(i, s) == RustRem(i + s, s)

\* a wrap that is the remainder of the truncated division alone
wrap_truncated(i, s) == RustRem(i, s)

\* util::wrap
wrap(i, s) == RustRem(RustRem(i, s) + s, s)

\* IPos::wrap
PosWrap(pos, sz) == [k \in 1..Len(pos) |-> wrap(pos[k], sz[k])]

\* IPos::index_in
index_in(pos, sz) == to_index(PosWrap(pos, sz), sz)

\* Dimension::opposite of the prebuilt enumerations (pairs (0,1), (2,3), ...)
opposite(d) == IF d % 2 = 0 THEN d + 1 ELSE d - 1

\* an addition that moves by +1 for an even enumeration index and -1 for an
\* odd one
PosAddFlipped(pos, d) ==
  [pos EXCEPT ![(d \div 2) + 1] = @ + (IF d % 2 = 0 THEN 1 ELSE -1)]

\* impl Add<D> for IPos: the axis is index / 2, the offset -1 for an even
\* enumeration index and +1 for an odd one
PosAdd(pos, d) ==
  [pos EXCEPT ![(d \div 2) + 1] = @ + (IF d % 2 = 0 THEN -1 ELSE 1)]

\* self[arr_index] of PosAdd is inside the DIM-vector
AxisInRange(d, dim) == (d \div 2) < dim

\* ------------------------------------------------------------- ordered sets
\* OrderSet::insert: appended unless already present
OrdInsert(s, x) == IF x \in Range(s) THEN s ELSE Append(s, x)

\* OrderSet::swap_remove: the last element takes the place of the removed one
OrdSwapRemove(s, x) ==
  IF x \notin Range(s) THEN s
  ELSE LET k == CHOOSE j \in 1..Len(s) : s[j] = x
           n == Len(s)
       IN IF k = n THEN SubSeq(s, 1, n - 1)
          ELSE SubSeq([s EXCEPT ![k] = s[n]], 1, n - 1)

\* ------------------------------------------------------------- state
VARIABLES
  \* StateBuilder (state.rs:15-29) and the type parameters of build()
  size,             \* Size<DIM>
  dim_count,        \* D::COUNT, the number of values of the direction enum
  rules,            \* Rules: variant -> (direction -> socket), both partial
  constraint,       \* "unary" (UnaryConstrainer) or "set" (SetConstrainer)
  output_buffer,    \* the seeds: per cell index {} (None) or {v} (Some(v))
  external_cells,   \* ExtCells.sides: direction -> array of variants
  limit_cfg,        \* the map LimitMod::new was given
  key_order,        \* iteration order of rules.keys() (a HashMap)
  side_order,       \* iteration order of external_cells.sides (a HashMap)
  \* State (state.rs:115-128), Cells (cells.rs:17-23), the arbiter
  list,             \* Cells.list
  entropy_cache,    \* Cells.entropy_cache; entropy_cache[e] is self.0[e - 1]
  socket_cache,     \* State.socket_cache
  limits,           \* LimitMod.0, the remaining quotas
  \* control: where build() / State::collapse / State::propagate stand
  pc,
  ret,              \* the caller propagate returns to
  stack,            \* propagate's stack
  cell_index,       \* the cell popped by propagate
  neighbors,        \* the popped cell's neighbours still to be visited
  ext_dirs,         \* directions apply_external_information has yet to take
  ext_dir,          \* the direction being applied, as {} or {d}
  indexes,          \* face cells of ext_dir yet to be constrained
  propagations,     \* seeds apply_predetermined_cells has yet to propagate
  index,            \* the cell the observer designated in this step
  result,           \* what the last build() / State::collapse call returned
  \* history
  observed,         \* the (index, variant) pairs collapsed by the observer
  revised,          \* the variants the modifier was invoked with
  twin,             \* a second engine built from the same inputs
  \* the engine-facing object when it is modelled as a composition
  chain,            \* observer.chain(m1). ... .chain(mk)
  calls,            \* the modifiers the object's modify calls have invoked
  \* a caller of the crate's pure functions (util.rs, constraints.rs, rules.rs)
  eval              \* the call made: the function, its arguments, its result

cfgvars == <<size, dim_count, rules, constraint, output_buffer, external_cells,
             limit_cfg, key_order, side_order>>

engvars == <<list, entropy_cache, socket_cache, limits, pc, ret, stack,
             cell_index, neighbors, ext_dirs, ext_dir, indexes, propagations,
             index, result, observed, revised>>

chainvars == <<chain, calls>>

vars == <<cfgvars, engvars, twin, chainvars, eval>>

\* const DIM
DIM == Len(size)

\* D::iter(): the direction ids in enumeration order
DirSeq == [k \in 1..dim_count |-> k - 1]

\* ------------------------------------------------------------- rules
\* Rules::rule_for(v) is Some
HasRule(v) == v \in DOMAIN rules

\* Rules::rule_for(v).and_then(|r| r.socket_for(d)) is Some
HasSocket(v, d) == HasRule(v) /\ d \in DOMAIN rules[v]

\* ------------------------------------------------------------- constraints
\* UnaryConstrainer::check (constraints.rs:19-21)
UnaryCheck(socket, sockets) == socket \in sockets

\* a set check that accepts every socket
SetCheckAlways(possible_socket, sockets) == TRUE

\* SetConstrainer::check (constraints.rs:32-36)
SetCheck(possible_socket, sockets) ==
  \E s \in sockets : s \cap possible_socket # {}

\* a sequential constrainer that passes when either of its parts does
CheckEither(c, socket, sockets) ==
  LET Part(k) == IF k.kind = "unary" THEN UnaryCheck(socket, sockets)
                 ELSE SetCheck(socket, sockets)
  IN IF c.kind = "seq" THEN Part(c.constrainer1) \/ Part(c.constrainer2)
     ELSE Part(c)

\* Constraint::check of a constrainer value: UnaryConstrainer, SetConstrainer
\* or SequentialConstrainer { constrainer1, constrainer2 } (constraints.rs)
RECURSIVE ConstrainerCheck(_, _, _)
ConstrainerCheck(c, socket, sockets) ==
  CASE c.kind = "unary" -> UnaryCheck(socket, sockets)
    [] c.kind = "set" -> SetCheck(socket, sockets)
    [] c.kind = "seq" -> /\ ConstrainerCheck(c.constrainer1, socket, sockets)
                         /\ ConstrainerCheck(c.constrainer2, socket, sockets)

\* Constraint::check of the constraint the builder was given
Check(socket, sockets) ==
  IF constraint = "unary" THEN UnaryCheck(socket, sockets)
  ELSE SetCheck(socket, sockets)

\* ------------------------------------------------------------- cells
\* a neighbour list that wraps around the grid instead of stopping at the
\* border
neighbors_of_wrapped(position) ==
  [k \in 1..dim_count |->
     <<index_in(PosAdd(position, k - 1), size), k - 1>>]

\* Cell::neighbors_of
neighbors_of(position) ==
  LET InBounds(d) == Contains(size, PosAdd(position, d))
      ds == SelectSeq(DirSeq, InBounds)
  IN [k \in 1..Len(ds) |-> <<to_index(PosAdd(position, ds[k]), size), ds[k]>>]

\* Cell::new
NewCell(position, possibilities) ==
  [possibilities |-> possibilities, collapsed |-> FALSE,
   entropy |-> Len(possibilities), position |-> position,
   neighbors |-> neighbors_of(position)]

\* Cell::new_collapsed
NewCollapsed(position, variant) ==
  [possibilities |-> <<variant>>, collapsed |-> TRUE, entropy |-> 0,
   position |-> position, neighbors |-> neighbors_of(position)]

\* a collapse that stores the first variant of the rule table, not the chosen
CellCollapseFirstKey(cell, variant) ==
  [cell EXCEPT !.possibilities = <<key_order[1]>>, !.collapsed = TRUE,
               !.entropy = 0]

\* Cell::collapse
CellCollapse(cell, variant) ==
  [cell EXCEPT !.possibilities = <<variant>>, !.collapsed = TRUE,
               !.entropy = 0]

\* a remove_variant that removes nothing
remove_variant_noop(cell, variant) == cell

\* Cell::remove_variant: nothing on a collapsed cell, swap_remove otherwise
remove_variant(cell, variant) ==
  IF cell.collapsed THEN cell
  ELSE LET p == OrdSwapRemove(cell.possibilities, variant)
       IN [cell EXCEPT !.possibilities = p, !.entropy = Len(p)]

\* Cell::selected_variant, as {} or {v}
selected_variant(cell) ==
  IF cell.collapsed THEN {cell.possibilities[1]} ELSE {}

\* ------------------------------------------------------------- entropy cache
\* Index / IndexMut for EntropyCache: self.0[index - 1] exists
CacheIndexOk(cache, e) == e \in 1..Len(cache)

\* EntropyCache::clear_entry
clear_entry(cache, e, i) == [cache EXCEPT ![e] = OrdSwapRemove(@, i)]

\* a set that inserts into the new bucket without leaving the old one
CacheSetKeepsOld(cache, starting_entropy, i, new_entropy) ==
  [cache EXCEPT ![new_entropy] = OrdInsert(@, i)]

\* EntropyCache::set
CacheSet(cache, starting_entropy, i, new_entropy) ==
  LET c1 == [cache EXCEPT ![starting_entropy] = OrdSwapRemove(@, i)]
  IN [c1 EXCEPT ![new_entropy] = OrdInsert(@, i)]

\* a lowest that looks at the bucket of the highest entropy only
lowest_top_only(cache) ==
  IF cache # <<>> /\ cache[Len(cache)] # <<>> THEN Len(cache) ELSE 0

\* a lowest that answers the last non-empty bucket
lowest_from_top(cache) ==
  IF \E e \in 1..Len(cache) : cache[e] # <<>>
  THEN CHOOSE e \in 1..Len(cache) :
         cache[e] # <<>> /\ \A f \in (e + 1)..Len(cache) : cache[f] = <<>>
  ELSE 0

\* EntropyCache::lowest, as the entropy of the first non-empty bucket or 0
lowest(cache) ==
  IF \E e \in 1..Len(cache) : cache[e] # <<>>
  THEN CHOOSE e \in 1..Len(cache) :
         cache[e] # <<>> /\ \A f \in 1..(e - 1) : cache[f] = <<>>
  ELSE 0

\* ------------------------------------------------------------- results
NoPos == <<>>

Res(kind) == [kind |-> kind, position |-> NoPos, neighbor |-> NoPos,
              direction |-> 0, neighbor_variants |-> {},
              neighbor_sockets |-> {},
              const_value |-> 0, dimension_count |-> 0, index |-> 0]

\* a Contradiction that names the emptied cell as the neighbor and the cell
\* propagated from as the position
ContradictionSwapped(position, neighbor) ==
  [Res("Contradiction") EXCEPT !.position = neighbor, !.neighbor = position]

\* Error::Contradiction as State::constrain builds it (state.rs:295-298)
Contradiction(position, neighbor) ==
  [Res("Contradiction") EXCEPT !.position = position, !.neighbor = neighbor]

\* the fields direction, neighbor_variants and neighbor_sockets that
\* Error::Contradiction declares (err.rs:12-14): the direction constrain was
\* called with, the neighbour's candidates it was given and the socket set it
\* checked against
ContradictionDetail(err, direction, neighbor_variants, neighbor_sockets) ==
  [err EXCEPT !.direction = direction,
              !.neighbor_variants = neighbor_variants,
              !.neighbor_sockets = neighbor_sockets]

\* Error::DimensionMismatch (state.rs:75-78)
DimensionMismatch(const_value, count) ==
  [Res("DimensionMismatch") EXCEPT !.const_value = const_value,
                                   !.dimension_count = count]

\* Observation::Incomplete(index)
Incomplete(i) == [Res("Incomplete") EXCEPT !.index = i]

\* ------------------------------------------------------------- socket cache
\* a collection of the sockets of the smallest variant alone
CollectFirst(variants, dir) ==
  {rules[v][dir] : v \in {w \in variants : /\ HasSocket(w, dir)
                                            /\ \A x \in variants : w <= x}}

\* the union full_create / partial_create collect: the sockets on dir of the
\* variants that have a rule and a socket for dir
CollectSockets(variants, dir) ==
  {rules[v][dir] : v \in {w \in variants : HasSocket(w, dir)}}

\* SocketCache::lookup: "hit", "no_dir" (Some(None)) or "miss" (None)
lookup(cache, variants, dir) ==
  IF variants \notin DOMAIN cache THEN "miss"
  ELSE IF dir \notin DOMAIN cache[variants] THEN "no_dir"
  ELSE "hit"

\* SocketCache::full_create
full_create(cache, variants, dir) ==
  LET dir_map == IF variants \in DOMAIN cache THEN cache[variants] ELSE <<>>
      filled == IF dir \in DOMAIN dir_map THEN dir_map
                ELSE dir_map @@ (dir :> CollectSockets(variants, dir))
  IN [k \in DOMAIN cache \cup {variants} |->
        IF k = variants THEN filled ELSE cache[k]]

\* a partial_create that starts the direction map of the set afresh
partial_create_afresh(cache, variants, dir) ==
  [cache EXCEPT ![variants] = (dir :> CollectSockets(variants, dir))]

\* SocketCache::partial_create
partial_create(cache, variants, dir) ==
  [cache EXCEPT ![variants] =
     IF dir \in DOMAIN @ THEN @ ELSE @ @@ (dir :> CollectSockets(variants, dir))]

\* the cache after the lookup of State::constrain (state.rs:271-279)
CacheAfterLookup(cache, variants, dir) ==
  CASE lookup(cache, variants, dir) = "hit" -> cache
    [] lookup(cache, variants, dir) = "no_dir" ->
         partial_create(cache, variants, dir)
    [] OTHER -> full_create(cache, variants, dir)

\* ------------------------------------------------------------- constrain
\* a retain predicate that keeps a variant without a socket for the side
RetainedUnlessRefuted(variant, opp, neighbor_sockets) ==
  HasSocket(variant, opp) => Check(rules[variant][opp], neighbor_sockets)

\* the retain predicate of State::constrain (state.rs:283-292)
Retained(variant, opp, neighbor_sockets) ==
  /\ HasRule(variant)
  /\ HasSocket(variant, opp)
  /\ Check(rules[variant][opp], neighbor_sockets)

\* State::constrain: the cell and the cache afterwards, and whether it
\* returned Ok; on Err the entropy field keeps its old value
constrain(cell, neighbor_possibilities, neighbor_to_self_dir, cache) ==
  LET cache2 == CacheAfterLookup(cache, neighbor_possibilities,
                                 neighbor_to_self_dir)
      neighbor_sockets == cache2[neighbor_possibilities][neighbor_to_self_dir]
      opp == opposite(neighbor_to_self_dir)
      Keep(v) == Retained(v, opp, neighbor_sockets)
      kept == SelectSeq(cell.possibilities, Keep)
  IN IF kept = <<>>
     THEN [cell |-> [cell EXCEPT !.possibilities = kept], cache |-> cache2,
           ok |-> FALSE,
           err |-> ContradictionDetail(
                     Contradiction(cell.position,
                       PosAdd(cell.position, opposite(neighbor_to_self_dir))),
                     neighbor_to_self_dir, neighbor_possibilities,
                     neighbor_sockets)]
     ELSE [cell |-> [cell EXCEPT !.possibilities = kept,
                                 !.entropy = Len(kept)],
           cache |-> cache2, ok |-> TRUE, err |-> Res("None")]

\* ------------------------------------------------------------- Cells
\* Cells::new panics: position + dir indexes the DIM-vector out of range in
\* neighbors_of, or entropy_cache[max_entropy] is indexed with max_entropy = 0
CellsNewPanics(keys) ==
  \/ \E d \in 0..(dim_count - 1) : ~AxisInRange(d, DIM)
  \/ Len(keys) = 0 /\ \E i \in DOMAIN output_buffer : output_buffer[i] = {}

\* Cells::new: the list
CellsNewList(keys) ==
  [i \in 0..(SizeLen(size) - 1) |->
     IF output_buffer[i] # {}
     THEN NewCollapsed(from_index(i, size),
                       CHOOSE v \in output_buffer[i] : TRUE)
     ELSE NewCell(from_index(i, size), keys)]

\* Cells::new: the entropy cache, the unseeded cells in bucket max_entropy
CellsNewCache(keys) ==
  [e \in 1..Len(keys) |->
     IF e = Len(keys)
     THEN Sorted({i \in DOMAIN output_buffer : output_buffer[i] = {}})
     ELSE <<>>]

\* Cells::find_cells; pos is mutated in place and handed back to the caller
RECURSIVE find_cells(_, _, _, _, _)
find_cells(lst, dimension, dindex, pos, cells) ==
  LET idx == to_index(pos, size)
      cells1 == IF ~lst[idx].collapsed THEN Append(cells, idx) ELSE cells
      d == wrap(dindex + dimension, DIM)
      RECURSIVE Loop(_, _, _)
      Loop(i, p, cs) ==
        IF i >= size[d + 1] THEN <<p, cs>>
        ELSE LET r == find_cells(lst, dimension + 1, dindex,
                                 [p EXCEPT ![d + 1] = i], cs)
             IN Loop(i + 1, r[1], r[2])
  IN IF dimension < DIM THEN Loop(1, pos, cells1) ELSE <<pos, cells1>>

\* Cells::uncollapsed_indexes_along_dir
uncollapsed_indexes_along_dir(lst, dir) ==
  LET dindex == dir \div 2
      even == dir % 2 = 0
      zero == [k \in 1..DIM |-> 0]
      pos == IF even THEN zero
             ELSE [zero EXCEPT ![dindex + 1] = size[dindex + 1] - 1]
  IN find_cells(lst, 1, dindex, pos, <<>>)[2]

\* ------------------------------------------------------------- modifier
\* usize::saturating_sub(1)
SaturatingDec(n) == IF n = 0 THEN 0 ELSE n - 1

\* a removal loop that visits no cell
RemoveNowhere(lst, cache, variant) ==
  [list |-> lst, cache |-> cache, panic |-> FALSE]

\* the removal loop of LimitMod::modify (processing.rs:232-241): every
\* uncollapsed cell in index order loses the variant and changes bucket;
\* entropy_cache.set panics when it indexes a bucket that does not exist, after
\* remove_variant and, for the new bucket, after the swap_remove from the old
RemoveEverywhere(lst, cache, variant) ==
  LET n == Cardinality(DOMAIN lst)
      Removed(i) == remove_variant(lst[i], variant)
      Panics(i) ==
        /\ ~lst[i].collapsed
        /\ \/ ~CacheIndexOk(cache, lst[i].entropy)
           \/ ~CacheIndexOk(cache, Removed(i).entropy)
      \* the cell at which the loop stops, n if it runs to the end
      stop == IF \E i \in 0..(n - 1) : Panics(i)
              THEN CHOOSE i \in 0..(n - 1) :
                     Panics(i) /\ \A j \in 0..(i - 1) : ~Panics(j)
              ELSE n
      Visited(i) == ~lst[i].collapsed /\ i <= stop
      \* the cache after the iterations for the cells below i
      RECURSIVE Buckets(_)
      Buckets(i) ==
        IF i = 0 THEN cache
        ELSE IF ~Visited(i - 1) THEN Buckets(i - 1)
        ELSE IF i - 1 < stop
        THEN CacheSet(Buckets(i - 1), lst[i - 1].entropy, i - 1,
                      Removed(i - 1).entropy)
        ELSE IF CacheIndexOk(cache, lst[i - 1].entropy)
        THEN clear_entry(Buckets(i - 1), lst[i - 1].entropy, i - 1)
        ELSE Buckets(i - 1)
  IN [list |-> [i \in DOMAIN lst |-> IF Visited(i) THEN Removed(i) ELSE lst[i]],
      cache |-> Buckets(n),
      panic |-> stop < n]

\* LimitMod::modify (processing.rs:221-242) on the engine record
modify(e, variant) ==
  IF variant \notin DOMAIN e.limits THEN e
  ELSE LET limit == SaturatingDec(e.limits[variant])
           e1 == [e EXCEPT !.limits[variant] = limit]
       IN IF limit > 0 THEN e1
          ELSE LET r == RemoveEverywhere(e1.list, e1.entropy_cache, variant)
               IN [e1 EXCEPT !.list = r.list, !.entropy_cache = r.cache,
                             !.pc = IF r.panic THEN "panic" ELSE @,
                             !.result = IF r.panic THEN Res("Panic") ELSE @]

\* ------------------------------------------------------------- engine
\* the engine as a record of its fields
Eng == [list |-> list, entropy_cache |-> entropy_cache,
        socket_cache |-> socket_cache, limits |-> limits, pc |-> pc,
        ret |-> ret, stack |-> stack, cell_index |-> cell_index,
        neighbors |-> neighbors, ext_dirs |-> ext_dirs, ext_dir |-> ext_dir,
        indexes |-> indexes, propagations |-> propagations, index |-> index,
        result |-> result, observed |-> observed, revised |-> revised]

\* StateBuilder::new: nothing built yet
NewBuilder(lim) ==
  [list |-> <<>>, entropy_cache |-> <<>>, socket_cache |-> <<>>,
   limits |-> lim, pc |-> "builder", ret |-> "none", stack |-> <<>>,
   cell_index |-> 0, neighbors |-> <<>>, ext_dirs |-> <<>>, ext_dir |-> {},
   indexes |-> <<>>, propagations |-> <<>>, index |-> 0,
   result |-> Res("None"), observed |-> <<>>, revised |-> <<>>]

\* StateBuilder::build up to Cells::new (state.rs:71-89, 149-155)
DoBuild(e, keys, sides) ==
  IF DIM # dim_count \div 2
  THEN [e EXCEPT !.pc = "error", !.result = DimensionMismatch(DIM, dim_count)]
  ELSE IF CellsNewPanics(keys)
  THEN [e EXCEPT !.pc = "panic", !.result = Res("Panic")]
  ELSE [e EXCEPT !.list = CellsNewList(keys),
                 !.entropy_cache = CellsNewCache(keys),
                 !.pc = "ext", !.ext_dirs = sides]

\* Vec::push onto propagate's stack and entry into its loop (state.rs:182-183)
StartPropagate(e, i, from) ==
  [e EXCEPT !.stack = <<i>>, !.neighbors = <<>>, !.pc = "prop", !.ret = from]

\* apply_external_information: the next (dir, ext) of the map (state.rs:311-312)
DoExtDir(e) ==
  LET d == Head(e.ext_dirs)
  IN [e EXCEPT !.ext_dir = {d}, !.ext_dirs = Tail(e.ext_dirs),
               !.indexes = uncollapsed_indexes_along_dir(e.list, d)]

\* apply_external_information: the place in the border array of dir read for
\* the cell at position (state.rs:315-316); external_cells.size is the size
\* of the grid (ExtCells::new(size), state.rs:52)
neighbor_index_of(position, dir) == index_in(PosAdd(position, dir), size)

\* apply_external_information: one face cell (state.rs:313-334)
DoExtCell(e) ==
  LET i == Head(e.indexes)
      dir == CHOOSE d \in e.ext_dir : TRUE
      cell == e.list[i]
      neighbor_index == neighbor_index_of(cell.position, dir)
      ext == external_cells[dir]
  IN IF neighbor_index + 1 > Len(ext)
     THEN [e EXCEPT !.pc = "panic", !.result = Res("Panic")]
     ELSE
       LET r == constrain(cell, {ext[neighbor_index + 1]}, opposite(dir),
                          e.socket_cache)
           e1 == [e EXCEPT !.list[i] = r.cell, !.socket_cache = r.cache,
                           !.indexes = Tail(e.indexes)]
       IN IF ~r.ok THEN [e1 EXCEPT !.pc = "error", !.result = r.err]
          ELSE IF cell.entropy # r.cell.entropy
          THEN StartPropagate(
                 [e1 EXCEPT !.entropy_cache =
                    CacheSet(@, cell.entropy, i, r.cell.entropy)], i, "ext")
          ELSE StartPropagate(e1, i, "ext")

\* a list of the seeds in descending order of cell index
DoExtDoneDescending(e) ==
  LET seeded == {i \in DOMAIN e.list : e.list[i].collapsed}
      order == Sorted(seeded)
      n == Len(order)
  IN [e EXCEPT !.ext_dir = {}, !.pc = "seeds",
               !.propagations =
                 [k \in 1..n |->
                    <<order[n + 1 - k],
                      e.list[order[n + 1 - k]].possibilities[1]>>]]

\* apply_predetermined_cells: the (index, variant) list (state.rs:343-349)
DoExtDone(e) ==
  LET seeded == {i \in DOMAIN e.list : e.list[i].collapsed}
      order == Sorted(seeded)
  IN [e EXCEPT !.ext_dir = {}, !.pc = "seeds",
               !.propagations =
                 [k \in 1..Len(order) |->
                    <<order[k], e.list[order[k]].possibilities[1]>>]]

\* a step that propagates without invoking the modifier
PropagateOnly(e, i, variant, from) == StartPropagate(e, i, from)

\* the arbiter's revise followed by the start of propagate (state.rs:173-174
\* and 352-353)
ReviseThenPropagate(e, i, variant, from) ==
  LET e1 == modify([e EXCEPT !.revised = Append(@, variant)], variant)
  IN IF e1.pc = "panic" THEN e1 ELSE StartPropagate(e1, i, from)

\* apply_predetermined_cells: one seed (state.rs:351-354)
DoSeed(e) ==
  LET p == Head(e.propagations)
  IN ReviseThenPropagate([e EXCEPT !.propagations = Tail(@)],
                         p[1], p[2], "seeds")

\* State::new returns Ok(this) (state.rs:161)
DoBuilt(e) == [e EXCEPT !.pc = "idle", !.result = Res("Ok")]

\* the observer: RandomObserver::observe with Cells::collapse
\* (processing.rs:58-75, cells.rs:98-113); ipos and vpos are what the two
\* draws of the generator select, a place in the lowest bucket and a place in
\* the cell's candidate set
DoDesignate(e, ipos, vpos) ==
  LET bucket == e.entropy_cache[lowest(e.entropy_cache)]
      i == bucket[ipos]
      variants == e.list[i].possibilities
  IN IF e.list[i].collapsed THEN [e EXCEPT !.index = i, !.pc = "revise"]
     ELSE IF variants = <<>>
     THEN [e EXCEPT !.pc = "error", !.result = Res("NoPossibilities")]
     ELSE [e EXCEPT !.entropy_cache = clear_entry(@, Len(variants), i),
                    !.list[i] = CellCollapse(@, variants[vpos]),
                    !.index = i, !.pc = "revise",
                    !.observed = Append(@, <<i, variants[vpos]>>)]

\* State::collapse returns Observation::Complete (state.rs:166-168)
DoComplete(e) == [e EXCEPT !.pc = "complete", !.result = Res("Complete")]

\* State::collapse after the observer (state.rs:170-174)
DoRevise(e) ==
  ReviseThenPropagate(e, e.index, e.list[e.index].possibilities[1], "step")

\* a pop that keeps the collapsed neighbours too
DoPopUnfiltered(e) ==
  LET ci == e.stack[Len(e.stack)]
  IN [e EXCEPT !.stack = SubSeq(@, 1, Len(@) - 1), !.cell_index = ci,
               !.neighbors = e.list[ci].neighbors]

\* State::propagate: stack.pop() and the neighbour filter (state.rs:185-193)
DoPop(e) ==
  LET ci == e.stack[Len(e.stack)]
      Uncollapsed(n) == ~e.list[n[1]].collapsed
  IN [e EXCEPT !.stack = SubSeq(@, 1, Len(@) - 1), !.cell_index = ci,
               !.neighbors = SelectSeq(e.list[ci].neighbors, Uncollapsed)]

\* State::propagate: one neighbour of the popped cell (state.rs:195-216)
DoEdge(e) ==
  LET n == Head(e.neighbors)
      neighbor_index == n[1]
      direction == n[2]
      cell == e.list[e.cell_index]
      neighbor == e.list[neighbor_index]
      starting_entropy == neighbor.entropy
      r == constrain(neighbor, Range(cell.possibilities), direction,
                     e.socket_cache)
      new_entropy == r.cell.entropy
      e1 == [e EXCEPT !.list[neighbor_index] = r.cell,
                      !.socket_cache = r.cache,
                      !.neighbors = Tail(e.neighbors)]
  IN IF ~r.ok THEN [e1 EXCEPT !.pc = "error", !.result = r.err]
     ELSE IF starting_entropy # new_entropy
     THEN [e1 EXCEPT !.entropy_cache =
                       CacheSet(@, starting_entropy, neighbor_index,
                                new_entropy),
                     !.stack = Append(@, neighbor_index)]
     ELSE e1

\* State::propagate returns Ok(()) to its caller (state.rs:220)
DoReturn(e) ==
  IF e.ret = "step"
  THEN [e EXCEPT !.pc = "idle", !.result = Incomplete(e.index)]
  ELSE [e EXCEPT !.pc = e.ret]

\* ------------------------------------------------------------- inputs
\* grid sizes explored: lines of up to MaxLen cells and two small planes
Sizes == {<<n>> : n \in 1..MaxLen} \cup {<<2, 1>>, <<2, 2>>}

\* a Rule giving socket neg on every negative side and pos on every positive
\* side; neg and pos are {} (no entry for those sides) or {socket}
RuleOf(n, neg, pos) ==
  LET Opt(d) == IF d % 2 = 0 THEN neg ELSE pos
  IN [d \in {x \in 0..(n - 1) : Opt(x) # {}} |-> CHOOSE sk \in Opt(d) : TRUE]

\* rule tables explored, for a direction enumeration of n values
RuleTables(n) ==
  LET U1 == RuleOf(n, {{1}}, {{1}})
      U2 == RuleOf(n, {{2}}, {{2}})
      U12 == RuleOf(n, {{1, 2}}, {{1, 2}})
      D12 == RuleOf(n, {{1}}, {{2}})
      D21 == RuleOf(n, {{2}}, {{1}})
      P1 == RuleOf(n, {}, {{1}})
  IN { (1 :> U1) @@ (2 :> U1),     \* everything fits everything
       (1 :> U1) @@ (2 :> U2),     \* like beside like only
       (1 :> U1) @@ (2 :> U12),    \* unary: like beside like; set: everything
       (1 :> D12) @@ (2 :> D21),   \* the variants alternate along every axis
       (1 :> U1) @@ (2 :> P1),     \* variant 2 has no socket on negative sides
       (1 :> U1),                  \* variant 2 has no rule
       <<>> }                      \* no rule at all

\* the tables on which the set-intersection constraint is explored (on the
\* others every socket is a singleton and it decides as equality does)
SetTables(n) ==
  LET U1 == RuleOf(n, {{1}}, {{1}})
      U2 == RuleOf(n, {{2}}, {{2}})
      U12 == RuleOf(n, {{1, 2}}, {{1, 2}})
  IN { (1 :> U1) @@ (2 :> U12), (1 :> U1) @@ (2 :> U2) }

\* seed arrays over n cells with at most k seeded cells
SeedArrays(n, k) ==
  {b \in [0..(n - 1) -> {{}} \cup {{v} : v \in Variants}] :
     Cardinality({i \in 0..(n - 1) : b[i] # {}}) <= k}

\* maps LimitMod::new may be given
LimitMaps ==
  {(v :> n) : v \in Variants, n \in 0..MaxLimit}

\* external border maps: one direction, or two on grids of at most MaxLen
\* cells, each with an array holding the same variant for every cell of the
\* neighbouring grid
ExtMaps(n, cells) ==
  UNION {[K -> {[k \in 1..cells |-> v] : v \in Variants}] :
           K \in {X \in SUBSET (0..(n - 1)) :
                    Cardinality(X) <= (IF cells <= MaxLen THEN 2 ELSE 1)}}

\* the engine before build: StateBuilder::new and the modifier as constructed;
\* no utility call has been made
Unbuilt ==
  /\ key_order \in Perms(DOMAIN rules)
  /\ side_order \in Perms(DOMAIN external_cells)
  /\ list = <<>>
  /\ entropy_cache = <<>>
  /\ socket_cache = <<>>
  /\ limits = limit_cfg
  /\ pc = "builder"
  /\ ret = "none"
  /\ stack = <<>>
  /\ cell_index = 0
  /\ neighbors = <<>>
  /\ ext_dirs = <<>>
  /\ ext_dir = {}
  /\ indexes = <<>>
  /\ propagations = <<>>
  /\ index = 0
  /\ result = Res("None")
  /\ observed = <<>>
  /\ revised = <<>>
  /\ eval = <<>>

\* the builder's inputs and the engine before build
InitInputs ==
  /\ size \in Sizes
  /\ \/ /\ dim_count = 2 * DIM
        /\ \/ constraint = "unary" /\ rules \in RuleTables(dim_count)
           \/ constraint = "set" /\ rules \in SetTables(dim_count)
        /\ \/ /\ output_buffer \in SeedArrays(SizeLen(size), MaxSeeds)
              /\ limit_cfg = <<>>
              /\ external_cells = <<>>
           \/ /\ output_buffer \in SeedArrays(SizeLen(size), 1)
              /\ limit_cfg \in LimitMaps
              /\ external_cells = <<>>
           \/ /\ output_buffer \in SeedArrays(SizeLen(size), 0)
              /\ limit_cfg = <<>>
              /\ external_cells \in ExtMaps(dim_count, SizeLen(size)) \ {<<>>}
     \/ /\ dim_count \in (1..MaxDirs) \ {2 * DIM}
        /\ constraint = "unary"
        /\ rules \in {(1 :> RuleOf(dim_count, {{1}}, {{1}}))}
        /\ output_buffer \in SeedArrays(SizeLen(size), 1)
        /\ limit_cfg = <<>>
        /\ external_cells = <<>>
  /\ Unbuilt

\* the arbiter is the observer with the Limit modifier of limit_cfg, not a
\* longer composition
Unchained == chain = <<>> /\ calls = <<>>

\* one engine; the second one is not used
Init == InitInputs /\ twin = <<>> /\ Unchained

\* ------------------------------------------------------------- actions
\* the engine's fields become those of the record an operation returns
Assign(e) ==
  \E r \in {e} :
    /\ list' = r.list
    /\ entropy_cache' = r.entropy_cache
    /\ socket_cache' = r.socket_cache
    /\ limits' = r.limits
    /\ pc' = r.pc
    /\ ret' = r.ret
    /\ stack' = r.stack
    /\ cell_index' = r.cell_index
    /\ neighbors' = r.neighbors
    /\ ext_dirs' = r.ext_dirs
    /\ ext_dir' = r.ext_dir
    /\ indexes' = r.indexes
    /\ propagations' = r.propagations
    /\ index' = r.index
    /\ result' = r.result
    /\ observed' = r.observed
    /\ revised' = r.revised

Apply(e) == Assign(e) /\ UNCHANGED <<cfgvars, twin, chainvars, eval>>

\* StateBuilder::build
Build == pc = "builder" /\ Apply(DoBuild(Eng, key_order, side_order))

\* apply_external_information takes the next direction of the map
ExtDir ==
  pc = "ext" /\ indexes = <<>> /\ ext_dirs # <<>> /\ Apply(DoExtDir(Eng))

\* apply_external_information constrains one face cell
ExtCell == pc = "ext" /\ indexes # <<>> /\ Apply(DoExtCell(Eng))

\* apply_external_information returns, apply_predetermined_cells starts
ExtDone ==
  pc = "ext" /\ indexes = <<>> /\ ext_dirs = <<>> /\ Apply(DoExtDone(Eng))

\* apply_predetermined_cells handles one seed
Seed == pc = "seeds" /\ propagations # <<>> /\ Apply(DoSeed(Eng))

\* build() returns the engine
Built == pc = "seeds" /\ propagations = <<>> /\ Apply(DoBuilt(Eng))

\* State::collapse: the observer designates and collapses a cell
Designate ==
  /\ pc = "idle"
  /\ lowest(entropy_cache) # 0
  /\ \E ipos \in 1..Len(entropy_cache[lowest(entropy_cache)]) :
       \E vpos \in 1..Len(list[entropy_cache[lowest(entropy_cache)][ipos]]
                            .possibilities) :
         Apply(DoDesignate(Eng, ipos, vpos))

\* State::collapse: the observer finds no uncollapsed cell
Complete == pc = "idle" /\ lowest(entropy_cache) = 0 /\ Apply(DoComplete(Eng))

\* State::collapse: the modifier runs, propagation starts
Revise == pc = "revise" /\ Apply(DoRevise(Eng))

\* State::propagate pops a cell
Pop == pc = "prop" /\ neighbors = <<>> /\ stack # <<>> /\ Apply(DoPop(Eng))

\* State::propagate constrains one neighbour
Edge == pc = "prop" /\ neighbors # <<>> /\ Apply(DoEdge(Eng))

\* State::propagate returns
Return == pc = "prop" /\ neighbors = <<>> /\ stack = <<>> /\ Apply(DoReturn(Eng))

Next ==
  \/ Build
  \/ ExtDir
  \/ ExtCell
  \/ ExtDone
  \/ Seed
  \/ Built
  \/ Designate
  \/ Complete
  \/ Revise
  \/ Pop
  \/ Edge
  \/ Return

Spec == Init /\ [][Next]_vars

\* ------------------------------------------------------------- properties
\* build() has returned, with Ok, an error or a panic
BuildReturned == result.kind # "None"

\* the cells the builder was given no variant for
Unseeded == {i \in DOMAIN output_buffer : output_buffer[i] = {}}

\* the (index, variant) pairs of the cells that hold exactly one variant
Collapsed == {i \in DOMAIN list : list[i].collapsed}

\* the buckets of the entropy cache that hold cell index i, with multiplicity
BucketsOf(i) ==
  {<<e, k>> \in (DOMAIN entropy_cache) \X (0..SizeLen(size)) :
     k \in DOMAIN entropy_cache[e] /\ entropy_cache[e][k] = i}

\* the variant at A fits the variant at B, B being A's neighbour on d
Fits(a, b, d) ==
  /\ HasSocket(a, d)
  /\ HasSocket(b, opposite(d))
  /\ Check(rules[a][d], {rules[b][opposite(d)]})

\* C1: whenever build followed by the driver returns success, every pair of
\* adjacent in-bounds cells A at p and B at p + d passes the constraint check
\* between A's socket on d and the singleton of B's socket on opposite(d).
C1_LocalConsistency ==
  pc = "complete" =>
    \A i \in DOMAIN list :
      \A k \in DOMAIN list[i].neighbors :
        Fits(list[i].possibilities[1],
             list[list[i].neighbors[k][1]].possibilities[1],
             list[i].neighbors[k][2])

\* the input of the spec's fourth end-to-end scenario: size [2,1], (0,0) = 1
\* with socket 1 on every side, (1,0) = 2 with socket 2 on every side, equality
SeededContradictionInput ==
  /\ size = <<2, 1>>
  /\ dim_count = 4
  /\ constraint = "unary"
  /\ rules = (1 :> RuleOf(4, {{1}}, {{1}})) @@ (2 :> RuleOf(4, {{2}}, {{2}}))
  /\ output_buffer = (to_index(<<0, 0>>, size) :> {1})
                       @@ (to_index(<<1, 0>>, size) :> {2})
  /\ limit_cfg = <<>>
  /\ external_cells = <<>>

\* C2: for two adjacent seeds whose facing sockets fail the constraint, build
\* returns Contradiction with position (1,0) and neighbor (0,0), and never a
\* usable engine.
C2_SeededContradiction ==
  (SeededContradictionInput /\ BuildReturned) =>
    result = Contradiction(<<1, 0>>, <<0, 0>>)

C4_MonotoneShrinkage ==
  [][pc # "builder" =>
       \A i \in DOMAIN list :
         /\ i \in DOMAIN list'
         /\ Range(list'[i].possibilities) \subseteq Range(list[i].possibilities)
    ]_vars

\* an uncollapsed cell has lost a candidate and kept another
C4_Witness ==
  \E i \in DOMAIN list :
    /\ ~list[i].collapsed
    /\ list[i].possibilities # <<>>
    /\ Len(list[i].possibilities) < Len(key_order)

\* C5: a successful build or step leaves every cell with a candidate, and an
\* operation that empties a candidate set (propagation, or Limit removing the
\* last candidate) makes the step return Contradiction, neither continuing
\* nor crashing.
C5_EmptyIsContradiction ==
  /\ pc \in {"idle", "complete"} =>
       \A i \in DOMAIN list : list[i].possibilities # <<>>
  /\ (\E i \in DOMAIN list : list[i].possibilities = <<>>) =>
       (pc = "error" /\ result.kind = "Contradiction")

\* C7: build returns DimensionMismatch{DIM, COUNT} for every COUNT other than
\* 2 * DIM and for no other, and creates no cell on a mismatch.
C7_DimensionMismatch ==
  BuildReturned =>
    /\ (dim_count # 2 * DIM) <=> (result.kind = "DimensionMismatch")
    /\ dim_count # 2 * DIM =>
         (result = DimensionMismatch(DIM, dim_count) /\ list = <<>>)

\* C8: a step returns Complete if and only if no uncollapsed cell remains, so
\* after the driver's Ok every cell holds exactly one variant.
C8_CompleteIffAllCollapsed ==
  /\ [][pc = "idle" =>
          ((pc' = "complete") <=> (\A i \in DOMAIN list : list[i].collapsed))
       ]_vars
  /\ [](pc = "complete" =>
          \A i \in DOMAIN list : Len(list[i].possibilities) = 1)

\* the driver returned Ok after the observer had collapsed a cell
C8_Witness == pc = "complete" /\ observed # <<>>

\* how many cells the observer has collapsed to v
ObservedCount(v) ==
  Cardinality({k \in DOMAIN observed : observed[k][2] = v})

\* C10: for a Limit entry v -> n, n = 0 included, the observer never
\* collapses more than n cells to v.
C10_LimitBound ==
  \A v \in DOMAIN limit_cfg : ObservedCount(v) <= limit_cfg[v]

\* the rule tables of the fair specification: everything fits everything,
\* like beside like only, and a table without a rule for variant 2
FairTables(n) ==
  LET U1 == RuleOf(n, {{1}}, {{1}})
      U2 == RuleOf(n, {{2}}, {{2}})
  IN { (1 :> U1) @@ (2 :> U1), (1 :> U1) @@ (2 :> U2), (1 :> U1) }

\* the inputs of the fair specification: the equality constraint, the tables
\* above, the maps iterating in ascending order, and the plane of more than
\* MaxLen cells without seeds, limits and borders
InitFair ==
  /\ Init
  /\ constraint = "unary"
  /\ dim_count = 2 * DIM => rules \in FairTables(dim_count)
  /\ key_order = Sorted(DOMAIN rules)
  /\ side_order = Sorted(DOMAIN external_cells)
  /\ \/ SizeLen(size) <= MaxLen
     \/ /\ limit_cfg = <<>>
        /\ external_cells = <<>>
        /\ \A i \in DOMAIN output_buffer : output_buffer[i] = {}

\* the driver keeps calling the step and every statement of a step runs to
\* its end: an enabled step of the engine is eventually taken
FairSpec == InitFair /\ [][Next]_vars /\ WF_vars(Next)

\* the driver has returned Ok or an error
Returned == pc \in {"complete", "error"}

\* the driver has returned, or the process has panicked
Terminated == Returned \/ pc = "panic"

\* every step that returns Incomplete(i) turns exactly the uncollapsed cell i
\* into a collapsed one, the observer runs at most once per cell left
\* uncollapsed by build, and a cell is pushed on the propagation stack only
\* after its candidate set strictly shrank
StepProgress ==
  /\ [][pc = "idle" /\ pc' = "revise" =>
          (index' \notin Collapsed /\ Collapsed' = Collapsed \cup {index'})
       ]_vars
  /\ [][pc \notin {"builder", "idle"} => Collapsed' = Collapsed]_vars
  /\ [](pc = "idle" /\ result.kind = "Incomplete" =>
          (result.index = index /\ index \in Collapsed))
  /\ [](Len(observed) <= Cardinality(Unseeded))
  /\ [][pc = "prop" /\ Len(stack') > Len(stack) =>
          Range(list'[stack'[Len(stack')]].possibilities)
            \subseteq Range(list[stack'[Len(stack')]].possibilities)
          /\ Range(list'[stack'[Len(stack')]].possibilities)
               # Range(list[stack'[Len(stack')]].possibilities)
       ]_vars

\* C9: the driver terminates: every step that returns Incomplete(i) collapses
\* exactly cell i, so the driver returns Ok or an error after at most one step
\* per cell left uncollapsed by build and one more, and the propagation of a
\* step ends, a cell being pushed only after its candidate set shrank.
C9_DriverTerminates == StepProgress /\ ((pc = "idle") ~> Returned)

\* every run ends: the driver returns, or the process panics
DriverStops == StepProgress /\ <>Terminated

\* ------------------------------------------------------------- two engines
\* the statement an engine inside build, a modifier call or a propagation
\* runs next
Micro(e) ==
  CASE e.pc = "ext" /\ e.indexes # <<>> -> DoExtCell(e)
    [] e.pc = "ext" /\ e.indexes = <<>> /\ e.ext_dirs # <<>> -> DoExtDir(e)
    [] e.pc = "ext" /\ e.indexes = <<>> /\ e.ext_dirs = <<>> -> DoExtDone(e)
    [] e.pc = "seeds" /\ e.propagations # <<>> -> DoSeed(e)
    [] e.pc = "seeds" /\ e.propagations = <<>> -> DoBuilt(e)
    [] e.pc = "revise" -> DoRevise(e)
    [] e.pc = "prop" /\ e.neighbors # <<>> -> DoEdge(e)
    [] e.pc = "prop" /\ e.neighbors = <<>> /\ e.stack # <<>> -> DoPop(e)
    [] e.pc = "prop" /\ e.neighbors = <<>> /\ e.stack = <<>> -> DoReturn(e)
    [] OTHER -> e

\* the engine when build() or State::collapse returns, or panics
RECURSIVE Run(_)
Run(e) ==
  IF e.pc \in {"ext", "seeds", "revise", "prop"} THEN Run(Micro(e)) ELSE e

\* IteratorRandom::choose: the place a draw selects among n items
Pick(draw, n) == IF n = 0 THEN 1 ELSE ((draw - 1) % n) + 1

\* State::collapse on engine e with the generator's next two draws
Step(e, d1, d2) ==
  IF lowest(e.entropy_cache) = 0 THEN DoComplete(e)
  ELSE LET bucket == e.entropy_cache[lowest(e.entropy_cache)]
           ipos == Pick(d1, Len(bucket))
           vpos == Pick(d2, Len(e.list[bucket[ipos]].possibilities))
       IN Run(DoDesignate(e, ipos, vpos))

\* a second engine with the same inputs, whose rule table and border map
\* iterate in an order of their own
InitDet ==
  /\ InitInputs
  /\ constraint = "unary"
  /\ SizeLen(size) <= MaxLen
  /\ twin \in {[eng |-> NewBuilder(limit_cfg), keys |-> k, sides |-> sd] :
                 k \in Perms(DOMAIN rules), sd \in Perms(DOMAIN external_cells)}
  /\ Unchained

\* both builders build
BuildBoth ==
  /\ pc = "builder"
  /\ Assign(Run(DoBuild(Eng, key_order, side_order)))
  /\ twin' = [twin EXCEPT !.eng = Run(DoBuild(@, twin.keys, twin.sides))]
  /\ UNCHANGED <<cfgvars, chainvars, eval>>

\* both drivers call State::collapse, the observers make the same draws
StepBoth ==
  /\ pc = "idle"
  /\ twin.eng.pc = "idle"
  /\ \E d1 \in 1..MaxDraw, d2 \in 1..MaxDraw :
       /\ Assign(Step(Eng, d1, d2))
       /\ twin' = [twin EXCEPT !.eng = Step(@, d1, d2)]
  /\ UNCHANGED <<cfgvars, chainvars, eval>>

NextDet == BuildBoth \/ StepBoth

SpecDet == InitDet /\ [][NextDet]_vars

\* State::data_raw: the variant of every collapsed cell, {} for the others
data_raw(lst) == [i \in DOMAIN lst |-> selected_variant(lst[i])]

\* C6: two engines built from equal inputs whose observers make the same
\* draws collapse the same indexes to the same variants and end with equal
\* variant sequences or the same error, whatever the iteration order of the
\* rule table and of the border map.
C6_Determinism ==
  /\ twin.eng.observed = observed
  /\ twin.eng.result = result
  /\ twin.eng.pc = pc
  /\ data_raw(twin.eng.list) = data_raw(list)

\* ------------------------------------------------------------- limits
\* the modifier has just been invoked with variant v and left its quota at 0
QuotaExhausted(v) ==
  /\ Len(revised') = Len(revised) + 1
  /\ revised'[Len(revised')] = v
  /\ v \in DOMAIN limits'
  /\ limits'[v] = 0

\* the quota of v is 0 and a placement of v has been counted
Exhausted(v) == v \in DOMAIN limits /\ limits[v] = 0 /\ v \in Range(revised)

\* C11: when a placement of a limited variant v brings its quota to 0, at the
\* end of that modifier invocation v is in no uncollapsed cell's candidate
\* set and every uncollapsed cell is in the bucket of its entropy, and in no
\* later step is a cell collapsed to v.
C11_LimitExhaustion ==
  /\ [][\A v \in Variants :
          QuotaExhausted(v) =>
            \A i \in DOMAIN list' :
              ~list'[i].collapsed =>
                /\ v \notin Range(list'[i].possibilities)
                /\ Cardinality(BucketsOf(i)') = 1
                /\ \A b \in BucketsOf(i)' : b[1] = Len(list'[i].possibilities)
       ]_vars
  /\ [][\A v \in Variants :
          Exhausted(v) => ObservedCount(v)' = ObservedCount(v)
       ]_vars

\* the same of the modifier invocations that return
LimitExhaustionOnReturn ==
  /\ [][\A v \in Variants :
          (QuotaExhausted(v) /\ pc' # "panic") =>
            \A i \in DOMAIN list' :
              ~list'[i].collapsed =>
                /\ v \notin Range(list'[i].possibilities)
                /\ Cardinality(BucketsOf(i)') = 1
                /\ \A b \in BucketsOf(i)' : b[1] = Len(list'[i].possibilities)
       ]_vars
  /\ [][\A v \in Variants :
          Exhausted(v) => ObservedCount(v)' = ObservedCount(v)
       ]_vars

\* ------------------------------------------------------------- limit scenario
\* the variants A, B, C of the limit-exhaustion scenario
TileA == 1
TileB == 2
TileC == 3

\* the scenario's inputs: a square grid, three variants that fit each other on
\* every side, Limit{A: 1}, no seeds, no borders
InitLimit ==
  /\ size \in {<<n, n>> : n \in 1..MaxSide}
  /\ dim_count = 4
  /\ constraint = "unary"
  /\ rules = [v \in {TileA, TileB, TileC} |-> RuleOf(4, {{1}}, {{1}})]
  /\ output_buffer = [i \in 0..(SizeLen(size) - 1) |-> {}]
  /\ limit_cfg = (TileA :> 1)
  /\ external_cells = <<>>
  /\ Unbuilt
  /\ twin = <<>>
  /\ Unchained

\* the steps an engine without borders and seeds can take
NextUnseeded ==
  \/ Build
  \/ ExtDone
  \/ Built
  \/ Designate
  \/ Complete
  \/ Revise
  \/ Pop
  \/ Edge
  \/ Return

\* the driver keeps calling the step until it returns
LimitSpec == InitLimit /\ [][NextUnseeded]_vars /\ WF_vars(NextUnseeded)

\* the cells of the grid that hold variant v and nothing else
CellsEqual(v) == {i \in DOMAIN list : list[i].possibilities = <<v>>}

\* C12 as stated: on the square grid with variants A, B, C, permissive rules
\* and Limit{A: 1}, every run returns Complete and the final grid holds
\* exactly one A, every other cell being B or C.
C12_ExactlyOneA ==
  pc = "complete" =>
    /\ Cardinality(CellsEqual(TileA)) = 1
    /\ \A i \in DOMAIN list : i \in CellsEqual(TileA) \cup CellsEqual(TileB)
                                       \cup CellsEqual(TileC)

\* C12: on the square grid with variants A, B, C, permissive rules and
\* Limit{A: 1}, every run returns Complete and the final grid holds at most
\* one A, every other cell being B or C.
C12_AtMostOneA ==
  /\ [](pc \notin {"error", "panic"})
  /\ [](pc = "complete" =>
          /\ Cardinality(CellsEqual(TileA)) <= 1
          /\ \A i \in DOMAIN list : i \in CellsEqual(TileA) \cup CellsEqual(TileB)
                                             \cup CellsEqual(TileC))
  /\ <>(pc = "complete")

\* a completed grid of several cells with one A, placed by the observer
C12_Witness ==
  /\ pc = "complete"
  /\ SizeLen(size) > 1
  /\ Cardinality(CellsEqual(TileA)) = 1
  /\ \E k \in DOMAIN observed : observed[k][2] = TileA

\* ------------------------------------------------------------- entrance and exit
\* the entrance, the exit and two passage variants of the maze scenario
TileE == 1
TileX == 2
TileP == 3
TileQ == 4

\* the cell with the highest index
LastCell == SizeLen(size) - 1

\* the scenario's inputs: the first cell seeded with E, the last one with X,
\* Limit{E: 0, X: 0}, and for every variant one socket on all of its sides
InitMaze ==
  /\ size \in {<<n>> : n \in 2..(MaxLen + 1)} \cup {<<2, 2>>}
  /\ dim_count = 2 * DIM
  /\ constraint = "unary"
  /\ rules \in [{TileE, TileX, TileP, TileQ} ->
                  {RuleOf(dim_count, {{1}}, {{1}}), RuleOf(dim_count, {{2}}, {{2}})}]
  /\ output_buffer = [i \in 0..LastCell |->
                        IF i = 0 THEN {TileE}
                        ELSE IF i = LastCell THEN {TileX} ELSE {}]
  /\ limit_cfg = (TileE :> 0) @@ (TileX :> 0)
  /\ external_cells = <<>>
  /\ Unbuilt
  /\ twin = <<>>
  /\ Unchained

\* the steps an engine without borders can take
NextMaze ==
  \/ Build
  \/ ExtDone
  \/ Seed
  \/ Built
  \/ Designate
  \/ Complete
  \/ Revise
  \/ Pop
  \/ Edge
  \/ Return

MazeSpec == InitMaze /\ [][NextMaze]_vars

\* build() has returned Ok(state)
BuildSucceeded == result.kind \in {"Ok", "Incomplete", "Complete"}

\* C13: with the first and the last cell seeded with E and X and the modifier
\* Limit{E: 0, X: 0}, after build neither E nor X is a candidate of an
\* uncollapsed cell, and a completed output holds E at the first cell only
\* and X at the last cell only.
C13_SeedsStayUnique ==
  /\ BuildSucceeded =>
       \A i \in DOMAIN list :
         ~list[i].collapsed =>
           Range(list[i].possibilities) \cap {TileE, TileX} = {}
  /\ pc = "complete" =>
       (CellsEqual(TileE) = {0} /\ CellsEqual(TileX) = {LastCell})

\* a completed grid whose cells between the seeds were collapsed by the
\* observer
C13_Witness ==
  /\ pc = "complete"
  /\ Len(observed) >= 2
  /\ revised[1] = TileE
  /\ revised[2] = TileX

\* ------------------------------------------------------------- chained sockets
\* the rule table of the benchmark: every side of variant 0 / 1 / 2 / 3
\* exposes the socket {0,1} / {0,1,2} / {1,2,3} / {2,3}
ChainRules(n) ==
  (0 :> RuleOf(n, {{0, 1}}, {{0, 1}}))
    @@ (1 :> RuleOf(n, {{0, 1, 2}}, {{0, 1, 2}}))
    @@ (2 :> RuleOf(n, {{1, 2, 3}}, {{1, 2, 3}}))
    @@ (3 :> RuleOf(n, {{2, 3}}, {{2, 3}}))

\* the benchmark's inputs on small grids: the set-intersection constraint, no
\* seeds, no borders, no limits
InitChain ==
  /\ size \in {<<n>> : n \in 1..MaxLen} \cup {<<2, 2>>, <<2, 1, 1>>}
  /\ dim_count = 2 * DIM
  /\ constraint = "set"
  /\ rules = ChainRules(dim_count)
  /\ output_buffer = [i \in 0..(SizeLen(size) - 1) |-> {}]
  /\ limit_cfg = <<>>
  /\ external_cells = <<>>
  /\ Unbuilt
  /\ twin = <<>>
  /\ Unchained

ChainSpec == InitChain /\ [][NextUnseeded]_vars /\ WF_vars(NextUnseeded)

\* the pairs (a, b) of variants held by a cell and by one of its neighbours
AdjacentPairs ==
  UNION {{<<list[i].possibilities[1],
            list[list[i].neighbors[k][1]].possibilities[1]>> :
            k \in DOMAIN list[i].neighbors} : i \in DOMAIN list}

\* C14: with the chained socket sets, the set-intersection constraint and no
\* seeds, no sequence of observer choices produces a Contradiction: the driver
\* always returns success and the output holds no adjacent pair (0,3) or (3,0).
C14_ChainNeverContradicts ==
  /\ [](pc \notin {"error", "panic"})
  /\ [](pc = "complete" =>
          (<<0, 3>> \notin AdjacentPairs /\ <<3, 0>> \notin AdjacentPairs))
  /\ <>(pc = "complete")

\* a completed grid in which 0 and 2, whose sockets share the element 1, are
\* neighbours, and a cell beside a 0 that had lost candidate 3
C14_Witness ==
  /\ pc = "complete"
  /\ <<0, 2>> \in AdjacentPairs
  /\ \E k \in DOMAIN observed : observed[k][2] = 3

\* ------------------------------------------------------------- modifier calls
\* the pre-seeded cells, each of which build hands to the modifier once
Seeded == {i \in DOMAIN output_buffer : output_buffer[i] # {}}

\* C15: in every collapse step that returns Incomplete(i) the modifier is
\* invoked exactly once, after the observer has collapsed cell i and before
\* propagation from i starts, with the variant cell i now holds; when the
\* observer returns None or an error the modifier is not invoked and no
\* propagation runs.
C15_ModifierOncePerStep ==
  /\ [][pc = "idle" =>
          /\ revised' = revised
          /\ stack' = <<>>
          /\ pc' \in {"revise", "complete", "error"}
          /\ pc' = "revise" =>
               (~list[index'].collapsed /\ list'[index'].collapsed)
       ]_vars
  /\ [][pc = "revise" =>
          /\ revised' = Append(revised, list[index].possibilities[1])
          /\ list'[index].possibilities = list[index].possibilities
          /\ pc' \in {"prop", "panic"}
          /\ pc' = "prop" => (stack' = <<index>> /\ ret' = "step")
       ]_vars
  /\ [][pc = "prop" => revised' = revised]_vars
  /\ [](pc = "idle" /\ result.kind = "Incomplete" =>
          /\ Len(revised) = Cardinality(Seeded) + Len(observed)
          /\ revised[Len(revised)] = list[result.index].possibilities[1]
          /\ observed[Len(observed)] = <<result.index, revised[Len(revised)]>>)

\* a second step has returned Incomplete, after a build that handed a seed to
\* the modifier
C15_Witness ==
  /\ pc = "idle"
  /\ result.kind = "Incomplete"
  /\ Len(observed) >= 2
  /\ Seeded # {}

\* ------------------------------------------------------------- composition
\* RandomObserver::new
TheObserver == [kind |-> "observer"]

\* LimitMod::new; id is the place of the modifier in the chain() calls
LimitModNew(id, lim) == [kind |-> "limit", id |-> id, limits |-> lim]

\* Chain::new
ChainNew(arbiter, adjuster) ==
  [kind |-> "chain", arbiter |-> arbiter, adjuster |-> adjuster]

\* the tuple (A0, A1)
Tuple(a0, a1) == [kind |-> "tuple", first |-> a0, second |-> a1]

\* a chain() that puts the new modifier in front of the earlier ones
ChainedBefore(obj, other) ==
  CASE obj.kind = "observer" -> ChainNew(obj, other)
    [] obj.kind = "chain" -> ChainNew(obj.arbiter, Tuple(other, obj.adjuster))
    [] OTHER -> Tuple(other, obj)

\* Modifier::chain of RandomObserver and WeightedObserver, of Chain, and of
\* LimitMod and the tuple
Chained(obj, other) ==
  CASE obj.kind = "observer" -> ChainNew(obj, other)
    [] obj.kind = "chain" -> ChainNew(obj.arbiter, Tuple(obj.adjuster, other))
    [] OTHER -> Tuple(obj, other)

\* the number of modifiers chained into obj
RECURSIVE Count(_)
Count(obj) ==
  CASE obj.kind = "limit" -> 1
    [] obj.kind = "tuple" -> Count(obj.first) + Count(obj.second)
    [] obj.kind = "chain" -> Count(obj.adjuster)
    [] OTHER -> 0

\* LimitMod::modify of the modifier obj on the cells st, with the call logged
LimitModify(obj, variant, st) ==
  LET e == [limits |-> obj.limits, list |-> st.list,
            entropy_cache |-> st.cache, pc |-> "idle", result |-> Res("None")]
      r == modify(e, variant)
  IN [obj |-> [obj EXCEPT !.limits = r.limits],
      st |-> [list |-> r.list, cache |-> r.entropy_cache,
              panic |-> r.pc = "panic",
              log |-> Append(st.log, [id |-> obj.id, variant |-> variant,
                                      before |-> st.list, after |-> r.list])]]

\* Modifier::modify of the observers (nothing), of LimitMod, of the tuple
\* (first, then second) and of Chain (the adjuster); a panic unwinds
RECURSIVE Modify(_, _, _)
Modify(obj, variant, st) ==
  IF st.panic THEN [obj |-> obj, st |-> st]
  ELSE CASE obj.kind = "limit" -> LimitModify(obj, variant, st)
         [] obj.kind = "tuple" ->
              LET r0 == Modify(obj.first, variant, st)
                  r1 == Modify(obj.second, variant, r0.st)
              IN [obj |-> Tuple(r0.obj, r1.obj), st |-> r1.st]
         [] obj.kind = "chain" ->
              LET r == Modify(obj.adjuster, variant, st)
              IN [obj |-> ChainNew(obj.arbiter, r.obj), st |-> r.st]
         [] OTHER -> [obj |-> obj, st |-> st]

\* Observer::observe of Chain (the arbiter's) and of RandomObserver
RECURSIVE Observe(_, _, _, _)
Observe(obj, e, ipos, vpos) ==
  IF obj.kind = "chain" THEN Observe(obj.arbiter, e, ipos, vpos)
  ELSE DoDesignate(e, ipos, vpos)

\* the maps of the chained Limit modifiers
ChainLimitMaps == {(v :> n) : v \in {TileA, TileB, TileC}, n \in 1..2}

\* the inputs: a line of cells, three variants that fit each other, no seeds,
\* no borders, and the bare observer, onto which modifiers are chained
InitCompose ==
  /\ size \in {<<n>> : n \in 2..MaxLen}
  /\ dim_count = 2
  /\ constraint = "unary"
  /\ rules = [v \in {TileA, TileB, TileC} |-> RuleOf(2, {{1}}, {{1}})]
  /\ output_buffer = [i \in 0..(SizeLen(size) - 1) |-> {}]
  /\ limit_cfg = <<>>
  /\ external_cells = <<>>
  /\ Unbuilt
  /\ key_order = Sorted(DOMAIN rules)
  /\ twin = <<>>
  /\ chain = TheObserver
  /\ calls = <<>>

\* observer.chain(m): one more Limit modifier is chained on
ChainOn ==
  /\ pc = "builder"
  /\ Count(chain) < MaxChain
  /\ \E lim \in ChainLimitMaps :
       chain' = Chained(chain, LimitModNew(Count(chain) + 1, lim))
  /\ UNCHANGED <<cfgvars, engvars, twin, calls, eval>>

\* State::collapse: the engine calls observe on the object
ObserveCall ==
  /\ pc = "idle"
  /\ lowest(entropy_cache) # 0
  /\ \E ipos \in 1..Len(entropy_cache[lowest(entropy_cache)]) :
       \E vpos \in 1..Len(list[entropy_cache[lowest(entropy_cache)][ipos]]
                            .possibilities) :
         Apply(Observe(chain, Eng, ipos, vpos))

\* State::collapse: the engine calls modify on the object, then propagates
ModifyCall ==
  /\ pc = "revise"
  /\ LET variant == list[index].possibilities[1]
         r == Modify(chain, variant,
                     [list |-> list, cache |-> entropy_cache, panic |-> FALSE,
                      log |-> <<>>])
         e1 == [Eng EXCEPT !.list = r.st.list, !.entropy_cache = r.st.cache,
                           !.revised = Append(@, variant)]
     IN /\ Assign(IF r.st.panic
                  THEN [e1 EXCEPT !.pc = "panic", !.result = Res("Panic")]
                  ELSE StartPropagate(e1, index, "step"))
        /\ chain' = r.obj
        /\ calls' = Append(calls, r.st.log)
  /\ UNCHANGED <<cfgvars, twin, eval>>

NextCompose ==
  \/ ChainOn
  \/ Build
  \/ ExtDone
  \/ Built
  \/ ObserveCall
  \/ Complete
  \/ ModifyCall
  \/ Pop
  \/ Edge
  \/ Return

ComposeSpec == InitCompose /\ [][NextCompose]_vars

\* C16: for an object built as observer.chain(m1). ... .chain(mk), each modify
\* call that returns has invoked every mi exactly once, in the order m1 ... mk,
\* with the called variant, each on the cells the one before it left (a call
\* cut short by a modifier's panic has invoked m1 ... mj in that order), and
\* observe is the original observer's observe.
C16_ChainOrder ==
  /\ [][calls' # calls =>
          LET log == calls'[Len(calls')]
              k == Count(chain)
              n == Len(log)
          IN /\ Count(chain') = k
             /\ pc' # "panic" => n = k
             /\ n <= k
             /\ \A j \in 1..n :
                  /\ log[j].id = j
                  /\ log[j].variant = list[index].possibilities[1]
                  /\ log[j].before = (IF j = 1 THEN list ELSE log[j - 1].after)
             /\ list' = (IF n = 0 THEN list ELSE log[n].after)
       ]_vars
  /\ [][pc = "idle" /\ pc' = "revise" =>
          \E ipos \in 1..SizeLen(size), vpos \in 1..Len(key_order) :
            /\ ipos <= Len(entropy_cache[lowest(entropy_cache)])
            /\ vpos <= Len(list[entropy_cache[lowest(entropy_cache)][ipos]]
                             .possibilities)
            /\ Eng' = DoDesignate(Eng, ipos, vpos)
       ]_vars

\* a modify call on a chain of three modifiers has returned, the first of
\* them having removed a variant from the cells the second one was given
C16_Witness ==
  /\ pc = "idle"
  /\ \E c \in DOMAIN calls :
       /\ Len(calls[c]) = 3
       /\ calls[c][1].before # calls[c][1].after
       /\ calls[c][2].before = calls[c][1].after

\* ------------------------------------------------------------- borders
\* the number of cells of the grid face orthogonal to direction d
FaceLen(d) == SizeLen(size) \div size[(d \div 2) + 1]

\* the arrays with_ext may be given for direction d: one variant per cell of
\* the face, or one per cell of a neighbouring grid of the same size
BorderArrays(d) == UNION {[1..n -> Variants] : n \in {FaceLen(d), SizeLen(size)}}

\* border maps of one direction, or of two on grids of at most MaxLen cells
BorderMaps ==
  UNION {{f \in [K -> UNION {BorderArrays(d) : d \in K}] :
            \A d \in K : f[d] \in BorderArrays(d)} :
           K \in {X \in SUBSET (0..(2 * DIM - 1)) :
                    /\ X # {}
                    /\ Cardinality(X) <= (IF SizeLen(size) <= MaxLen
                                          THEN 2 ELSE 1)}}

\* inputs with borders and seeds together: lines, a plane and a box
InitBorder ==
  /\ size \in {<<n>> : n \in 2..MaxLen} \cup {<<2, 2>>, <<1, 2, 2>>}
  /\ dim_count = 2 * DIM
  /\ constraint = "unary"
  /\ rules \in FairTables(dim_count)
  /\ output_buffer \in SeedArrays(SizeLen(size), MaxSeeds)
  /\ limit_cfg = <<>>
  /\ external_cells \in BorderMaps
  /\ Unbuilt
  /\ key_order = Sorted(DOMAIN rules)
  /\ twin = <<>>
  /\ Unchained

BorderSpec == InitBorder /\ [][Next]_vars

\* the variants of the pre-seeded cells in ascending order of cell index
SeedVariants ==
  LET order == Sorted(Seeded)
  IN [k \in 1..Len(order) |-> CHOOSE v \in output_buffer[order[k]] : TRUE]

\* build is inside apply_predetermined_cells
InSeeds == pc = "seeds" \/ (pc = "prop" /\ ret = "seeds")

\* C17: during build the borders are applied before any seed is processed;
\* then, for every pre-seeded cell in ascending index order, the modifier is
\* invoked once with that cell's variant and propagation from that cell
\* follows at once; a Contradiction raised by one of these propagations is
\* what build returns.
C17_BuildOrder ==
  /\ [](pc = "ext" => revised = <<>>)
  /\ [](InSeeds => (ext_dirs = <<>> /\ indexes = <<>>))
  /\ [][InSeeds => pc' # "ext"]_vars
  /\ [][(pc = "seeds" /\ propagations # <<>>) =>
          LET k == Len(revised) + 1
              i == Sorted(Seeded)[k]
          IN /\ revised' = Append(revised, SeedVariants[k])
             /\ list[i].possibilities = <<SeedVariants[k]>>
             /\ pc' \in {"prop", "panic"}
             /\ pc' = "prop" => (stack' = <<i>> /\ ret' = "seeds")
       ]_vars
  /\ [][(pc = "prop" /\ ret = "seeds") =>
          /\ revised' = revised
          /\ (\E i \in DOMAIN list : list'[i].possibilities = <<>>) =>
               (pc' = "error" /\ result'.kind = "Contradiction")
       ]_vars
  /\ [][pc = "error" => FALSE]_vars
  /\ [](pc = "idle" /\ result.kind = "Ok" => revised = SeedVariants)

\* build has returned Ok after applying a border and then handing two seeds
\* with different variants to the modifier
C17_Witness ==
  /\ pc = "idle"
  /\ result.kind = "Ok"
  /\ external_cells # <<>>
  /\ Len(revised) = 2
  /\ revised[1] # revised[2]

\* the cells on the grid face orthogonal to direction d
FaceOf(d) ==
  {i \in DOMAIN list :
     list[i].position[(d \div 2) + 1] =
       (IF d % 2 = 0 THEN 0 ELSE size[(d \div 2) + 1] - 1)}

\* the external variant facing cell i on direction d, as {} or {v}
Facing(i, d) ==
  LET k == neighbor_index_of(list[i].position, d) + 1
  IN IF k \in DOMAIN external_cells[d] THEN {external_cells[d][k]} ELSE {}

\* every uncollapsed cell on the face of a bordered direction d holds only
\* variants with a socket on d that passes the check against the socket of
\* the facing external variant, and is in the bucket of its entropy
FaceConstrained ==
  \A d \in DOMAIN external_cells :
    \A i \in FaceOf(d) :
      ~list[i].collapsed =>
        /\ \A v \in Range(list[i].possibilities) :
             /\ HasSocket(v, d)
             /\ Check(rules[v][d], CollectSockets(Facing(i, d), opposite(d)))
        /\ \A b \in BucketsOf(i) : b[1] = Len(list[i].possibilities)
        /\ Cardinality(BucketsOf(i)) = 1

\* a face cell emptied by its border makes build return Contradiction for
\* that cell
EmptiedFaceCellFails ==
  (pc = "ext" /\ indexes # <<>> /\ list'[Head(indexes)].possibilities = <<>>) =>
    /\ pc' = "error"
    /\ result'.kind = "Contradiction"
    /\ result'.position = list[Head(indexes)].position

\* C18: after a successful build with a border array on direction d, every
\* uncollapsed cell on the face orthogonal to d retains only variants v that
\* have a socket on d passing the constraint check against the socket of the
\* facing external variant on opposite(d), and sits in the bucket of its
\* entropy; a face cell emptied by the border makes build return
\* Contradiction.
C18_BorderEffect ==
  /\ [](BuildSucceeded => FaceConstrained)
  /\ [][EmptiedFaceCellFails]_vars

\* the same on lines and planes
BorderEffectFlat ==
  /\ []((BuildSucceeded /\ DIM <= 2) => FaceConstrained)
  /\ [][EmptiedFaceCellFails]_vars

\* s holds every element of S exactly once and nothing else
Enumerates(s, S) ==
  /\ Range(s) = S
  /\ Len(s) = Cardinality(S)

\* C20: for every grid of one, two or three dimensions and every direction d,
\* uncollapsed_indexes_along_dir(d) returns exactly the indices of the
\* uncollapsed cells whose coordinate on axis d/2 is 0 (d even) or
\* size[d/2] - 1 (d odd), each of them once and no other index.
C20_FaceIndexes ==
  (list # <<>> /\ DIM \in {1, 2, 3}) =>
    \A d \in 0..(dim_count - 1) :
      Enumerates(uncollapsed_indexes_along_dir(list, d),
                 {i \in FaceOf(d) : ~list[i].collapsed})

\* the same on lines and planes
FaceIndexesFlat ==
  (list # <<>> /\ DIM \in {1, 2}) =>
    \A d \in 0..(dim_count - 1) :
      Enumerates(uncollapsed_indexes_along_dir(list, d),
                 {i \in FaceOf(d) : ~list[i].collapsed})

\* apply_external_information is about to read the border entry of a face cell
PendingRead == pc = "ext" /\ indexes # <<>>

\* the direction whose border is being applied
ReadDir == CHOOSE d \in ext_dir : TRUE

\* the position of the face cell whose border entry is read next
ReadPos == list[Head(indexes)].position

\* the place of position pos on the face orthogonal to d, the face being
\* linearized column-major over the axes other than d's
FacePlace(pos, d) ==
  LET a == (d \div 2) + 1
      Others(k) == {j \in 1..(k - 1) : j # a}
      RECURSIVE Prod(_)
      Prod(J) == IF J = {} THEN 1
                 ELSE LET j == CHOOSE x \in J : TRUE
                      IN size[j] * Prod(J \ {j})
  IN SeqSum([k \in 1..DIM |-> IF k = a THEN 0 ELSE pos[k] * Prod(Others(k))])

\* the cell of a neighbouring grid of the same size that touches the face
\* cell at pos across direction d: pos with the coordinate on d's axis moved
\* to the opposite face
Touching(pos, d) ==
  LET a == (d \div 2) + 1
  IN [pos EXCEPT ![a] = IF d % 2 = 0 THEN size[a] - 1 ELSE 0]

UtilSizes ==
  UNION {[1..n -> 1..MaxExtent] : n \in 1..3} \cup {<<5, 5, 5>>}

\* IPos<DIM>: the signed positions, inside the grid and outside of it
IPositions(sz) == [1..Len(sz) -> (-MaxCoord)..MaxCoord]

\* a caller that holds a size and is about to call one utility function
InitUtil ==
  /\ size \in UtilSizes
  /\ dim_count = 2 * DIM
  /\ constraint = "unary"
  /\ rules = (1 :> RuleOf(dim_count, {{1}}, {{1}}))
  /\ output_buffer = [i \in 0..(SizeLen(size) - 1) |-> {}]
  /\ limit_cfg = <<>>
  /\ external_cells = <<>>
  /\ Unbuilt
  /\ twin = <<>>
  /\ Unchained

\* IPos::from_index / UPos::from_index, then .index(size) on the result (the
\* casts between usize and isize keep the in-range values they are given)
CallFromIndex ==
  /\ eval = <<>>
  /\ \E i \in 0..(SizeLen(size) - 1) :
       eval' = [fn |-> "from_index", index |-> i,
                pos |-> from_index(i, size),
                back |-> to_index(from_index(i, size), size)]
  /\ UNCHANGED <<cfgvars, engvars, twin, chainvars>>

\* IPos::index / UPos::index on an in-range position, then from_index on the
\* result, as tests::ipos_indexes and tests::upos_indexes do
CallIndex ==
  /\ eval = <<>>
  /\ \E p \in {q \in IPositions(size) : Contains(size, q)} :
       eval' = [fn |-> "index", pos |-> p, index |-> to_index(p, size),
                back |-> from_index(to_index(p, size), size)]
  /\ UNCHANGED <<cfgvars, engvars, twin, chainvars>>

\* position + direction (impl Add<DimensionId> and impl Add<D> for IPos), for
\* a direction whose axis the position has
CallAdd ==
  /\ eval = <<>>
  /\ \E p \in IPositions(size), d \in 0..(2 * DIM - 1) :
       eval' = [fn |-> "add", pos |-> p, dir |-> d, sum |-> PosAdd(p, d)]
  /\ UNCHANGED <<cfgvars, engvars, twin, chainvars>>

\* prebuilt::dims with Dim2d declared as Left, Up, Right, Down
DimsInterleaved ==
  [Dim1d |-> [iter |-> <<"Left", "Right">>,
              opposite |-> [Left |-> "Right", Right |-> "Left"]],
   Dim2d |-> [iter |-> <<"Left", "Up", "Right", "Down">>,
              opposite |-> [Left |-> "Right", Right |-> "Left",
                            Up |-> "Down", Down |-> "Up"]],
   Dim3d |-> [iter |-> <<"Left", "Right", "Up", "Down", "Forward", "Backward">>,
              opposite |-> [Left |-> "Right", Right |-> "Left",
                            Up |-> "Down", Down |-> "Up",
                            Forward |-> "Backward", Backward |-> "Forward"]]]

\* prebuilt::dims: each enum's variants in declaration order (the order of
\* D::iter()) and its Dimension::opposite
Dims ==
  [Dim1d |-> [iter |-> <<"Left", "Right">>,
              opposite |-> [Left |-> "Right", Right |-> "Left"]],
   Dim2d |-> [iter |-> <<"Left", "Right", "Up", "Down">>,
              opposite |-> [Left |-> "Right", Right |-> "Left",
                            Up |-> "Down", Down |-> "Up"]],
   Dim3d |-> [iter |-> <<"Left", "Right", "Up", "Down", "Forward", "Backward">>,
              opposite |-> [Left |-> "Right", Right |-> "Left",
                            Up |-> "Down", Down |-> "Up",
                            Forward |-> "Backward", Backward |-> "Forward"]]]

\* prebuilt::dims::bevy: the same for the two bevy enums
BevyDims ==
  [Dim2d |-> [iter |-> <<"Left", "Right", "Down", "Up">>,
              opposite |-> [Left |-> "Right", Right |-> "Left",
                            Down |-> "Up", Up |-> "Down"]],
   Dim3d |-> [iter |-> <<"Left", "Right", "Up", "Down", "Forward", "Backward">>,
              opposite |-> [Left |-> "Right", Right |-> "Left",
                            Up |-> "Down", Down |-> "Up",
                            Forward |-> "Backward", Backward |-> "Forward"]]]

\* opposite on a direction, twice, and position + d + opposite(d): for a
\* DimensionId, or for a variant of a prebuilt enum that has no more axes than
\* the position; the position is inside the grid or one step outside of it
CallOpposite ==
  /\ eval = <<>>
  /\ \E p \in {q \in IPositions(size) :
                 \A k \in 1..DIM : q[k] >= -1 /\ q[k] <= size[k]} :
       \/ \E d \in 0..(2 * DIM - 1) :
            eval' = [fn |-> "opposite", enum |-> "DimensionId", dir |-> d,
                     index |-> d, opp |-> opposite(d),
                     opp_index |-> opposite(d),
                     back |-> opposite(opposite(d)), pos |-> p,
                     home |-> PosAdd(PosAdd(p, d), opposite(d))]
       \/ \E m \in {Dims, BevyDims} : \E n \in DOMAIN m :
            \E k \in 1..Len(m[n].iter) :
              LET d == m[n].iter[k]
                  o == m[n].opposite[d]
                  Position(x) ==
                    (CHOOSE j \in 1..Len(m[n].iter) : m[n].iter[j] = x) - 1
              IN /\ Len(m[n].iter) <= 2 * DIM
                 /\ eval' = [fn |-> "opposite",
                             enum |-> IF m = Dims THEN n ELSE "bevy::" \o n,
                             dir |-> d, index |-> Position(d), opp |-> o,
                             opp_index |-> Position(o),
                             back |-> m[n].opposite[o], pos |-> p,
                             home |-> PosAdd(PosAdd(p, Position(d)),
                                             Position(o))]
  /\ UNCHANGED <<cfgvars, engvars, twin, chainvars>>

\* IPos::wrap on a signed position
CallWrap ==
  /\ eval = <<>>
  /\ \E p \in IPositions(size) :
       eval' = [fn |-> "wrap", pos |-> p, wrapped |-> PosWrap(p, size)]
  /\ UNCHANGED <<cfgvars, engvars, twin, chainvars>>

\* Constraint::check of a unary, a set-valued or a sequential constrainer of
\* two of these, on a socket that is a set and on a set of such sockets
CallCheck ==
  /\ eval = <<>>
  /\ LET Simple == {[kind |-> "unary"], [kind |-> "set"]}
         Constrainers ==
           Simple \cup {[kind |-> "seq", constrainer1 |-> a,
                         constrainer2 |-> b] : a \in Simple, b \in Simple}
     IN \E c \in Constrainers, socket \in SUBSET (1..MaxSocket),
           sockets \in SUBSET SUBSET (1..MaxSocket) :
          eval' = [fn |-> "check", constrainer |-> c, socket |-> socket,
                   sockets |-> sockets,
                   out |-> ConstrainerCheck(c, socket, sockets)]
  /\ UNCHANGED <<cfgvars, engvars, twin, chainvars>>

\* a Legend whose ids are enumerated from 1
LegendFromOne(table, iter) ==
  LET Enumerate(seq) == {<<i, seq[i]>> : i \in 1..Len(seq)}
  IN [variants |-> Enumerate(Sorted(DOMAIN table)),
      dimensions |-> Enumerate(iter),
      sockets |-> Enumerate(Sorted(UNION {{table[v][d] : d \in DOMAIN table[v]} :
                                            v \in DOMAIN table}))]

\* impl From<&HashMap<V, Rule<D, S>>> for Legend: the three BiHashMaps as sets
\* of (id, value) pairs; the keys sorted, D::iter() as it is, and the sockets
\* of all rules made unique and sorted are each enumerated from 0
Legend(table, iter) ==
  LET Enumerate(seq) == {<<i - 1, seq[i]>> : i \in 1..Len(seq)}
      sockets_of == UNION {{table[v][d] : d \in DOMAIN table[v]} :
                             v \in DOMAIN table}
  IN [variants |-> Enumerate(Sorted(DOMAIN table)),
      dimensions |-> Enumerate(iter),
      sockets |-> Enumerate(Sorted(sockets_of))]

\* Rules::abstract_rules: every (variant, rule) and every (dim, socket) of the
\* rule mapped through Legend::variant_id, dimension_id and socket_id
abstract_rules(table, legend) ==
  LET get_by_right(map, x) == CHOOSE i \in {p[1] : p \in map} : <<i, x>> \in map
      Collect(pairs) == [k \in {p[1] : p \in pairs} |->
                           CHOOSE y \in {p[2] : p \in pairs} : <<k, y>> \in pairs]
  IN Collect({<<get_by_right(legend.variants, v),
                Collect({<<get_by_right(legend.dimensions, d),
                           get_by_right(legend.sockets, table[v][d])>> :
                          d \in DOMAIN table[v]})>> : v \in DOMAIN table})

\* Rules::abstract_rules on a rule table over the variants 3 and 8, the
\* directions of Dim1d and the sockets 2, 4 and 7
CallLegend ==
  /\ eval = <<>>
  /\ LET iter == Dims.Dim1d.iter
         RuleSet == UNION {[D -> {2, 4, 7}] : D \in SUBSET Range(iter)}
     IN \E K \in SUBSET {3, 8} : \E table \in [K -> RuleSet] :
          eval' = [fn |-> "abstract_rules", table |-> table, iter |-> iter,
                   legend |-> Legend(table, iter),
                   rules |-> abstract_rules(table, Legend(table, iter))]
  /\ UNCHANGED <<cfgvars, engvars, twin, chainvars>>

NextUtil ==
  \/ CallFromIndex
  \/ CallIndex
  \/ CallAdd
  \/ CallOpposite
  \/ CallWrap
  \/ CallCheck
  \/ CallLegend

UtilSpec == InitUtil /\ [][NextUtil]_vars

\* C21: from_index and index are inverse to each other on the indexes and the
\* positions of the grid, and index is the column-major sum: pos[0] +
\* pos[1] * size[0] + pos[2] * size[0] * size[1], so that [2, 3, 4] in
\* [5, 5, 5] is 117.
C21_IndexBijection ==
  /\ (eval # <<>> /\ eval.fn = "from_index") =>
       /\ Contains(size, eval.pos)
       /\ eval.back = eval.index
  /\ (eval # <<>> /\ eval.fn = "index") =>
       /\ eval.index \in 0..(SizeLen(size) - 1)
       /\ eval.back = eval.pos
       /\ eval.index =
            eval.pos[1]
            + (IF DIM >= 2 THEN eval.pos[2] * size[1] ELSE 0)
            + (IF DIM >= 3 THEN eval.pos[3] * size[1] * size[2] ELSE 0)
       /\ (size = <<5, 5, 5>> /\ eval.pos = <<2, 3, 4>>) => eval.index = 117

C21_Witness ==
  /\ eval # <<>>
  /\ eval.fn = "index"
  /\ size = <<5, 5, 5>>
  /\ eval.pos = <<2, 3, 4>>
  /\ eval.index = 117
  /\ eval.back = <<2, 3, 4>>


\* C22: when p and p + d are both inside the grid, p + d differs from p on
\* axis d / 2 alone, by -1 for an even d and by +1 for an odd d, and the index
\* of p + d is the index of p minus (even d) or plus (odd d) the product of
\* the extents of the axes below d / 2.
C22_AddDirection ==
  (/\ eval # <<>>
   /\ eval.fn = "add"
   /\ Contains(size, eval.pos)
   /\ Contains(size, eval.sum)) =>
    LET axis == eval.dir \div 2
        step == IF eval.dir % 2 = 0 THEN -1 ELSE 1
        stride == IF axis = 0 THEN 1
                  ELSE IF axis = 1 THEN size[1] ELSE size[1] * size[2]
    IN /\ \A k \in 1..DIM :
            eval.sum[k] = eval.pos[k] + (IF k = axis + 1 THEN step ELSE 0)
       /\ to_index(eval.sum, size) = to_index(eval.pos, size) + step * stride

C22_Witness ==
  /\ eval # <<>>
  /\ eval.fn = "add"
  /\ size = <<3, 2, 3>>
  /\ eval.pos = <<1, 1, 1>>
  /\ eval.dir = 4
  /\ eval.sum = <<1, 1, 0>>
  /\ to_index(eval.sum, size) = to_index(eval.pos, size) - 6


\* C23: for a DimensionId and for every variant d of the five prebuilt
\* direction enums, opposite(opposite(d)) is d, opposite(d) is not d, the
\* enumeration index of opposite(d) is the index of d with its lowest bit
\* flipped, and (p + d) + opposite(d) is p.
C23_DirectionPairing ==
  (eval # <<>> /\ eval.fn = "opposite") =>
    /\ eval.back = eval.dir
    /\ eval.opp # eval.dir
    /\ eval.opp_index =
         (IF eval.index % 2 = 0 THEN eval.index + 1 ELSE eval.index - 1)
    /\ eval.home = eval.pos

C23_Witness ==
  /\ eval # <<>>
  /\ eval.fn = "opposite"
  /\ eval.enum = "bevy::Dim2d"
  /\ eval.dir = "Down"
  /\ eval.opp = "Up"
  /\ eval.index = 2
  /\ eval.opp_index = 3
  /\ eval.pos = <<0, 0>>


\* C24: every component of p.wrap(size) lies in 0 .. size[axis] - 1 and
\* differs from the component of p by a multiple of size[axis], whatever the
\* sign of the component and however far outside the grid it is; an in-range
\* position is returned unchanged.
C24_WrapIsEuclidean ==
  (eval # <<>> /\ eval.fn = "wrap") =>
    /\ \A k \in 1..DIM :
         /\ eval.wrapped[k] \in 0..(size[k] - 1)
         /\ (eval.wrapped[k] - eval.pos[k]) % size[k] = 0
    /\ Contains(size, eval.pos) => eval.wrapped = eval.pos

C24_Witness ==
  /\ eval # <<>>
  /\ eval.fn = "wrap"
  /\ size = <<2, 3>>
  /\ eval.pos = <<-5, 3>>
  /\ eval.wrapped = <<1, 0>>


\* ------------------------------------------------------------- conversion
\* impl From<State> for Vec<V>: the State is consumed; every cell gives the
\* first of its possibilities, and the unwrap panics on a cell that has none
IntoVec ==
  /\ pc \in {"idle", "complete", "error"}
  /\ eval = <<>>
  /\ eval' = [fn |-> "into_vec",
              panicked |-> \E i \in DOMAIN list : list[i].possibilities = <<>>,
              out |-> [i \in {j \in DOMAIN list : list[j].possibilities # <<>>}
                         |-> list[i].possibilities[1]]]
  /\ Assign([Eng EXCEPT !.pc = "consumed"])
  /\ UNCHANGED <<cfgvars, twin, chainvars>>

\* the engine, and a caller that may convert the State it holds
ConvertSpec == Init /\ [][Next \/ IntoVec]_vars

ConversionOfCollapsed ==
  (/\ eval # <<>>
   /\ eval.fn = "into_vec"
   /\ \A i \in DOMAIN list : list[i].collapsed) =>
    /\ ~eval.panicked
    /\ \A i \in DOMAIN list : {eval.out[i]} = selected_variant(list[i])


\* ------------------------------------------------------------- contradiction
\* C26: when State::propagate takes the edge from the popped cell C to its
\* neighbour N in direction d and N is left without candidates, the call
\* fails at once with Contradiction, position N's position, neighbor C's
\* position (which is position + opposite(d)); the edges and the stack
\* entries still pending are not processed, then or later.
C26_ContradictionAtEdge ==
  /\ [][(pc = "prop" /\ neighbors # <<>>) =>
          LET n == Head(neighbors)
              d == n[2]
              C == list[cell_index]
              N == list[n[1]]
          IN (list'[n[1]].possibilities = <<>>) =>
               /\ pc' = "error"
               /\ result'.kind = "Contradiction"
               /\ result'.position = N.position
               /\ N.position = PosAdd(C.position, d)
               /\ result'.neighbor = C.position
               /\ result'.neighbor = PosAdd(result'.position, opposite(d))
               /\ stack' = stack
               /\ neighbors' = Tail(neighbors)
               /\ \A i \in DOMAIN list : i # n[1] => list'[i] = list[i]]_vars
  /\ [][(pc = "error") => UNCHANGED engvars]_vars

\* a propagation failed while an edge of the popped cell was still pending
C26_Witness ==
  /\ pc = "error"
  /\ result.kind = "Contradiction"
  /\ Contains(size, result.neighbor)
  /\ neighbors # <<>>
  /\ \E i \in DOMAIN list :
       list[i].position = result.position /\ list[i].possibilities = <<>>


\* inputs under which a cell fails against a neighbour that still has several
\* candidates: a line or a plane, three variants whose negative sides carry
\* socket 1 or 2 and whose positive sides carry one of four sockets, and at
\* most one seed, on cell 0
InitClash ==
  /\ size \in {<<MaxLen>>, <<2, 2>>}
  /\ dim_count = 2 * DIM
  /\ constraint = "unary"
  /\ rules \in [{1, 2, 3} ->
                  {RuleOf(dim_count, {a}, {b}) : a \in 1..2, b \in 1..4}]
  /\ \E seed \in {{}, {1}, {2}, {3}} :
       output_buffer = [i \in 0..(SizeLen(size) - 1) |->
                          IF i = 0 THEN seed ELSE {}]
  /\ limit_cfg = <<>>
  /\ external_cells = <<>>
  /\ Unbuilt
  /\ key_order = Sorted(DOMAIN rules)
  /\ twin = <<>>
  /\ Unchained

ClashSpec == InitClash /\ [][NextMaze]_vars

C28_SocketCacheSound ==
  /\ [](\A K \in DOMAIN socket_cache : \A d \in DOMAIN socket_cache[K] :
          socket_cache[K][d] =
            {rules[v][d] : v \in {w \in K : /\ w \in DOMAIN rules
                                           /\ d \in DOMAIN rules[w]}})
  /\ [][\A K \in DOMAIN socket_cache : \A d \in DOMAIN socket_cache[K] :
          /\ K \in DOMAIN socket_cache'
          /\ d \in DOMAIN socket_cache'[K]
          /\ socket_cache'[K][d] = socket_cache[K][d]]_vars

\* partial_create has added a second direction to the entry of a set of two
\* candidates, and the set has been looked up with success afterwards
C28_Witness ==
  /\ \E K \in DOMAIN socket_cache :
       /\ Cardinality(K) = 2
       /\ Cardinality(DOMAIN socket_cache[K]) >= 2
       /\ \E d \in DOMAIN socket_cache[K] :
            Cardinality(socket_cache[K][d]) = 2
  /\ pc = "complete"


\* C29: the unary check of a socket s against a set S of sockets is true
\* exactly when s is in S; the set-valued check is true exactly when some
\* member of S has an element in common with s, hence false for an empty S
\* and for an empty s; the check of a sequential constrainer is the
\* conjunction of the checks of its two parts.
C29_ConstrainerChecks ==
  (eval # <<>> /\ eval.fn = "check") =>
    LET s == eval.socket
        S == eval.sockets
        c == eval.constrainer
        Meaning(k) == IF k.kind = "unary" THEN s \in S
                      ELSE \E t \in S : \E x \in t : x \in s
    IN /\ (c.kind # "seq") => (eval.out <=> Meaning(c))
       /\ (c.kind = "set" /\ (S = {} \/ s = {})) => ~eval.out
       /\ (c.kind = "seq") =>
            (eval.out <=> (Meaning(c.constrainer1) /\ Meaning(c.constrainer2)))

\* the unary part passes and the set part fails: the socket {} is a member of
\* the neighbour's sockets but shares no element with any of them
C29_Witness ==
  /\ eval # <<>>
  /\ eval.fn = "check"
  /\ eval.constrainer = [kind |-> "seq", constrainer1 |-> [kind |-> "unary"],
                         constrainer2 |-> [kind |-> "set"]]
  /\ eval.socket = {}
  /\ eval.sockets = {{}, {1}}
  /\ ~eval.out


\* C30: the Legend of a rule table numbers the variants, the directions and
\* the sockets from 0 without gaps, the variants and the sockets in ascending
\* order of their values and the directions in enumeration order, each value
\* with one id and each id with one value; the abstract rules have a rule for
\* id(v) exactly when the table has one for v, a socket on id(d) exactly when
\* that rule has one on d, and the socket is id(rule_for(v).socket_for(d)).
C30_LegendBijection ==
  (eval # <<>> /\ eval.fn = "abstract_rules") =>
    LET t == eval.table
        L == eval.legend
        A == eval.rules
        Ids(map) == {p[1] : p \in map}
        Values(map) == {p[2] : p \in map}
        Dense(map, values) ==
          /\ Values(map) = values
          /\ Ids(map) = 0..(Cardinality(values) - 1)
          /\ Cardinality(map) = Cardinality(values)
        Id(map, x) == CHOOSE i \in Ids(map) : <<i, x>> \in map
        Value(map, i) == CHOOSE x \in Values(map) : <<i, x>> \in map
        RoundTrip(map) ==
          /\ \A x \in Values(map) : Value(map, Id(map, x)) = x
          /\ \A i \in Ids(map) : Id(map, Value(map, i)) = i
        Ascending(map) ==
          \A p \in map, q \in map : (p[1] < q[1]) <=> (p[2] < q[2])
    IN /\ Dense(L.variants, DOMAIN t)
       /\ Dense(L.dimensions, Range(eval.iter))
       /\ Dense(L.sockets, {x \in {2, 4, 7} :
                              \E v \in DOMAIN t : \E d \in DOMAIN t[v] :
                                t[v][d] = x})
       /\ RoundTrip(L.variants) /\ RoundTrip(L.dimensions)
       /\ RoundTrip(L.sockets)
       /\ Ascending(L.variants) /\ Ascending(L.sockets)
       /\ \A k \in 1..Len(eval.iter) : <<k - 1, eval.iter[k]>> \in L.dimensions
       /\ DOMAIN A = {Id(L.variants, v) : v \in DOMAIN t}
       /\ \A v \in DOMAIN t :
            /\ DOMAIN A[Id(L.variants, v)] =
                 {Id(L.dimensions, d) : d \in DOMAIN t[v]}
            /\ \A d \in DOMAIN t[v] :
                 A[Id(L.variants, v)][Id(L.dimensions, d)] =
                   Id(L.sockets, t[v][d])

\* two variants, the smaller with the larger socket, and a side without a
\* socket
C30_Witness ==
  /\ eval # <<>>
  /\ eval.fn = "abstract_rules"
  /\ eval.table = (3 :> [Left |-> 7, Right |-> 2]) @@ (8 :> [Right |-> 4])
  /\ eval.legend.sockets = {<<0, 2>>, <<1, 4>>, <<2, 7>>}
  /\ eval.rules = (0 :> ((0 :> 2) @@ (1 :> 0))) @@ (1 :> (1 :> 1))

\* ------------------------------------------------------------- the weighted observer
\* the largest weight a shape gives a variant
MaxWeight == 1

\* an observer that empties the bucket and marks the cell before it asks the
\* chooser
ObserveWeightedEagerly(e, ipos, weight, vpos) ==
  LET bucket == e.entropy_cache[lowest(e.entropy_cache)]
      i == bucket[ipos]
      variants == e.list[i].possibilities
  IN IF \A k \in 1..Len(variants) : weight[variants[k]] = 0
     THEN [e EXCEPT !.entropy_cache = clear_entry(@, Len(variants), i),
                    !.list[i].collapsed = TRUE,
                    !.pc = "error", !.result = Res("NoPossibilities")]
     ELSE DoDesignate(e, ipos, vpos)

\* WeightedObserver::observe with Cells::collapse (processing.rs:157-178,
\* cells.rs:98-113): weight is what shape.weight answers for each candidate
\* of the chosen cell; choose_weighted fails when no weight is positive, and
\* the closure's error leaves Cells::collapse through `?` before clear_entry
\* and Cell::collapse; otherwise vpos is the place of the variant drawn, one
\* of positive weight
DoObserveWeighted(e, ipos, weight, vpos) ==
  LET bucket == e.entropy_cache[lowest(e.entropy_cache)]
      i == bucket[ipos]
      variants == e.list[i].possibilities
  IN IF e.list[i].collapsed THEN DoDesignate(e, ipos, vpos)
     ELSE IF \A k \in 1..Len(variants) : weight[variants[k]] = 0
     THEN [e EXCEPT !.pc = "error", !.result = Res("NoPossibilities")]
     ELSE DoDesignate(e, ipos, vpos)

\* State::collapse with a WeightedObserver as the arbiter's observer
\* (state.rs:165-168): the error of designate is returned by `?`
ObserveWeighted ==
  /\ pc = "idle"
  /\ lowest(entropy_cache) # 0
  /\ \E ipos \in 1..Len(entropy_cache[lowest(entropy_cache)]) :
       LET variants == list[entropy_cache[lowest(entropy_cache)][ipos]]
                         .possibilities
       IN \E weight \in [Range(variants) -> 0..MaxWeight] :
            \E vpos \in 1..Len(variants) :
              /\ \/ weight[variants[vpos]] > 0
                 \/ vpos = 1 /\ \A k \in 1..Len(variants) :
                                  weight[variants[k]] = 0
              /\ Apply(DoObserveWeighted(Eng, ipos, weight, vpos))

\* the engine of Spec with either reference observer
WeightedSpec == Init /\ [][Next \/ ObserveWeighted]_vars

\* C31: when the variant chooser fails with NoPossibilities, the collapse
\* step returns that error, the modifier is not run, and the cells and the
\* entropy cache are as before the step: the lowest bucket still holds an
\* uncollapsed cell with its candidates
C31_ChooserFailureLeavesCells ==
  [][((pc = "idle") /\ pc' = "error")
       => /\ result'.kind = "NoPossibilities"
          /\ list' = list
          /\ entropy_cache' = entropy_cache
          /\ limits' = limits
          /\ revised' = revised
          /\ observed' = observed
          /\ \E k \in 1..Len(entropy_cache') :
               \E ipos \in 1..Len(entropy_cache'[k]) :
                 LET i == entropy_cache'[k][ipos]
                 IN /\ ~list'[i].collapsed
                    /\ Len(list'[i].possibilities) = k]_vars

\* C31 happens: a step failed with NoPossibilities on a grid that still has
\* an uncollapsed cell with two candidates in its bucket
C31_Witness ==
  /\ pc = "error"
  /\ result.kind = "NoPossibilities"
  /\ \E i \in DOMAIN list :
       /\ ~list[i].collapsed
       /\ Len(list[i].possibilities) = 2
       /\ i \in Range(entropy_cache[2])

\* C32: the cell a reference observer (uniform or weighted) collapses was
\* uncollapsed with the least entropy among the uncollapsed cells of the
\* grid, the variant it gets is one of the candidates it had, and no other
\* cell changes
C32_ObserverPicksLowest ==
  [][((pc = "idle") /\ pc' = "revise")
       => LET i == index'
          IN /\ ~list[i].collapsed
             /\ \A j \in DOMAIN list :
                  ~list[j].collapsed
                    => /\ list[i].entropy <= list[j].entropy
                       /\ Len(list[i].possibilities)
                            <= Len(list[j].possibilities)
             /\ list'[i].collapsed
             /\ Len(list'[i].possibilities) = 1
             /\ list'[i].possibilities[1] \in Range(list[i].possibilities)
             /\ \A j \in DOMAIN list : j # i => list'[j] = list[j]]_vars

\* C32 happens: the observer has collapsed a cell while another uncollapsed
\* cell holds more candidates than the collapsed one had to choose from
C32_Witness ==
  /\ pc = "revise"
  /\ observed # <<>>
  /\ list[index].collapsed
  /\ \E j \in DOMAIN list :
       /\ ~list[j].collapsed
       /\ Len(list[j].possibilities) = 2
       /\ \E k \in 1..Len(entropy_cache) : j \in Range(entropy_cache[k])
  /\ \E j \in DOMAIN list :
       /\ j # index
       /\ list[j].collapsed

\* C33: when propagation constrains a cell N across an edge from a
\* neighbour in direction d, every candidate of N with no rule, or with no
\* socket for opposite(d), is removed whatever the constraint and the
\* neighbour's sockets are, and the socket set N is checked against is made
\* of the sockets on d of the neighbour's candidates that have one
C33_SocketlessRemoved ==
  [][((pc = "prop") /\ neighbors # <<>>)
       => LET N == Head(neighbors)[1]
              d == Head(neighbors)[2]
              K == Range(list[cell_index].possibilities)
          IN /\ \A v \in Range(list[N].possibilities) :
                  (v \notin DOMAIN rules \/ opposite(d) \notin DOMAIN rules[v])
                    => v \notin Range(list'[N].possibilities)
             /\ socket_cache'[K][d]
                  = UNION {IF w \in DOMAIN rules /\ d \in DOMAIN rules[w]
                           THEN {rules[w][d]} ELSE {} : w \in K}]_vars

\* C33 happens: on a grid without modifier or border, an uncollapsed cell
\* with one neighbour has lost a variant that has no socket on the side of
\* that neighbour, while the neighbour's sockets were collected
C33_Witness ==
  /\ limit_cfg = <<>>
  /\ external_cells = <<>>
  /\ \E N \in DOMAIN list : \E v \in DOMAIN rules :
       /\ ~list[N].collapsed
       /\ list[N].possibilities # <<>>
       /\ v \notin Range(list[N].possibilities)
       /\ Len(list[N].neighbors) = 1
       /\ list[N].neighbors[1][2] \notin DOMAIN rules[v]
       /\ \E K \in DOMAIN socket_cache :
            opposite(list[N].neighbors[1][2]) \in DOMAIN socket_cache[K]

\* the grid is at a propagation fixed point: for every cell C and every
\* uncollapsed neighbour N = C + d, each candidate of N has a socket on
\* opposite(d) that the constraint accepts against the union of the sockets
\* on d of C's candidates
AtFixedPoint ==
  \A C \in DOMAIN list : \A k \in 1..Len(list[C].neighbors) :
    LET N == list[C].neighbors[k][1]
        d == list[C].neighbors[k][2]
    IN ~list[N].collapsed
         => \A v \in Range(list[N].possibilities) :
              /\ HasSocket(v, opposite(d))
              /\ Check(rules[v][opposite(d)],
                       CollectSockets(Range(list[C].possibilities), d))

\* C34: after every successful build and every successful collapse step the
\* grid is at a propagation fixed point
C34_FixedPoint == (pc = "idle") => AtFixedPoint

\* C35: in every state of an engine that is being built or was built (an
\* engine whose build failed is never handed out) the entropy recorded for
\* an uncollapsed cell is the size of its candidate set and at least 1, and
\* a cell is collapsed exactly if its entropy is 0 and it has one candidate
C35_EntropyIsCount ==
  (pc \notin {"builder", "panic"} /\ (pc = "error" => observed # <<>>)) =>
    \A i \in DOMAIN list :
      /\ ~list[i].collapsed
           => /\ list[i].entropy = Len(list[i].possibilities)
              /\ list[i].entropy >= 1
      /\ list[i].collapsed
           <=> (list[i].entropy = 0 /\ Len(list[i].possibilities) = 1)

\* C36: no operation indexes the one-based entropy cache with entropy 0 or
\* with an entropy above the number of variants of the rules: an engine
\* with as many directions as its grid needs and without external borders
\* (the two other places where an index can be out of range) never panics,
\* not in Cells::new, Cells::collapse, propagation's set_entropy or the
\* Limit modifier's entropy_cache.set
C36_CacheIndexInRange ==
  (dim_count = 2 * DIM /\ external_cells = <<>>) => pc # "panic"

\* C37: when Cells::new has made the cells, the neighbour list of cell i at
\* position p holds exactly the pairs (index(p + d), d) for the directions d
\* with p + d inside the grid, once each; the lists are symmetric under
\* opposite(d) and never hold i itself; the lists never change afterwards,
\* and propagation never pairs a cell with itself
C37_NeighborLists ==
  /\ []((pc = "ext" /\ ext_dir = {}) =>
          \A i \in DOMAIN list :
            LET nb == list[i].neighbors
            IN /\ Range(nb)
                    = {jd \in (DOMAIN list) \X (0..(dim_count - 1)) :
                         from_index(jd[1], size)
                           = PosAdd(from_index(i, size), jd[2])}
               /\ Cardinality(Range(nb)) = Len(nb)
               /\ \A k \in 1..Len(nb) :
                    /\ nb[k][1] # i
                    /\ <<i, opposite(nb[k][2])>>
                         \in Range(list[nb[k][1]].neighbors))
  /\ []((pc = "prop" /\ neighbors # <<>>)
          => Head(neighbors)[1] # cell_index)
  /\ [][(pc # "builder") =>
          /\ DOMAIN list' = DOMAIN list
          /\ \A i \in DOMAIN list :
               list'[i].neighbors = list[i].neighbors]_vars

\* C37 happens: on the 2 x 2 grid propagation is about to constrain a
\* neighbour of a popped cell that has two neighbours, after an observation
C37_Witness ==
  /\ size = <<2, 2>>
  /\ pc = "prop"
  /\ observed # <<>>
  /\ neighbors # <<>>
  /\ Len(list[cell_index].neighbors) = 2
  /\ Head(neighbors) \in Range(list[cell_index].neighbors)

\* C38: once a cell is collapsed, by a seed at build or by an observation,
\* no later propagation, modifier invocation, external-border application
\* or collapse call changes its variant or makes it uncollapsed again
C38_CollapsedIsFinal ==
  [][(pc # "builder") =>
       \A i \in DOMAIN list :
         list[i].collapsed
           => /\ i \in DOMAIN list'
              /\ list'[i].collapsed
              /\ list'[i].possibilities = list[i].possibilities]_vars

\* C38 happens: a seeded cell and an observed cell are collapsed, the Limit
\* modifier has removed a variant everywhere else, and propagation has
\* constrained a neighbour since
C38_Witness ==
  /\ pc = "idle"
  /\ \E i \in DOMAIN list : output_buffer[i] # {} /\ list[i].collapsed
  /\ \E i \in DOMAIN list :
       /\ output_buffer[i] = {}
       /\ list[i].collapsed
       /\ list[i].possibilities[1] \in DOMAIN limits
       /\ limits[list[i].possibilities[1]] = 0
  /\ \E i \in DOMAIN list : ~list[i].collapsed
  /\ socket_cache # <<>>

\* ------------------------------------------------------------- propagation order
\* State::propagate from the statement engine e is at up to its return, its
\* Contradiction or a panic, in the order of the code: the last stack entry
\* first, the neighbours in list order (state.rs:185-220)
RECURSIVE RunPropagate(_)
RunPropagate(e) == IF e.pc = "prop" THEN RunPropagate(Micro(e)) ELSE e

\* a pop that takes entry k and forgets the other stack entries
DoPopDropping(e, k) == DoPop([e EXCEPT !.stack = <<@[k]>>])

\* the pop of State::propagate (state.rs:185-193) with the stack entry to
\* take left open: entry k is moved to the end, where pop() takes it
DoPopAt(e, k) ==
  DoPop([e EXCEPT !.stack = SubSeq(@, 1, k - 1) \o SubSeq(@, k + 1, Len(@))
                              \o <<@[k]>>])

\* the loop body of State::propagate (state.rs:195-216) with the neighbour to
\* constrain next left open: neighbour k is moved to the front
DoEdgeAt(e, k) ==
  DoEdge([e EXCEPT !.neighbors = <<@[k]>> \o SubSeq(@, 1, k - 1)
                                   \o SubSeq(@, k + 1, Len(@))])

\* the engine's fields become those of e; the second engine runs the
\* propagation e starts in the order of the code
StartBoth(e) ==
  /\ Assign(e)
  /\ twin' = [eng |-> RunPropagate(e)]
  /\ UNCHANGED <<cfgvars, chainvars, eval>>

\* apply_predetermined_cells handles one seed; the second engine propagates
\* it in the order of the code
SeedBoth == pc = "seeds" /\ propagations # <<>> /\ StartBoth(DoSeed(Eng))

\* State::collapse: the modifier runs, propagation starts; the second engine
\* propagates in the order of the code
ReviseBoth == pc = "revise" /\ StartBoth(DoRevise(Eng))

\* State::propagate pops some stack entry
PopAny ==
  /\ pc = "prop"
  /\ neighbors = <<>>
  /\ \E k \in 1..Len(stack) : Apply(DoPopAt(Eng, k))

\* State::propagate constrains some neighbour of the popped cell
EdgeAny ==
  /\ pc = "prop"
  /\ \E k \in 1..Len(neighbors) : Apply(DoEdgeAt(Eng, k))

NextAnyOrder ==
  \/ Build
  \/ ExtDone
  \/ SeedBoth
  \/ Built
  \/ Designate
  \/ Complete
  \/ ReviseBoth
  \/ PopAny
  \/ EdgeAny
  \/ Return

\* build and the collapse driver with the order of propagation left open,
\* beside a second engine that propagates in the order of the code
OrderSpec == InitClash /\ [][NextAnyOrder]_vars

\* the propagation has nothing left to pop or to constrain
PropagationDone == pc = "prop" /\ neighbors = <<>> /\ stack = <<>>

\* C39: a propagation that ends without a Contradiction leaves every cell
\* with the candidate set the order of the code (LIFO, neighbours in list
\* order) leaves it with, whatever the order in which stack entries and
\* neighbours were processed, and then the order of the code ends without a
\* Contradiction too
C39_OrderIndependent ==
  PropagationDone =>
    /\ twin.eng.pc \notin {"error", "panic", "prop"}
    /\ \A i \in DOMAIN list :
         /\ Range(list[i].possibilities)
              = Range(twin.eng.list[i].possibilities)
         /\ list[i].collapsed = twin.eng.list[i].collapsed

\* C39 happens: a propagation has ended with the stack processed in another
\* order than the code's, visible in the bucket order, and it removed
\* candidates from two cells
C39_Witness ==
  /\ PropagationDone
  /\ entropy_cache # twin.eng.entropy_cache
  /\ \E i, j \in DOMAIN list :
       /\ i # j
       /\ ~list[i].collapsed
       /\ ~list[j].collapsed
       /\ Len(list[i].possibilities) < Len(key_order)
       /\ Len(list[j].possibilities) < Len(key_order)

====
